---- MODULE Spec2Model ----
(***************************************************************************)
(* Model of the NN_MPC core: the MPC controller (Controllers.py), the      *)
(* Simulator and the batch utilities (Utility.py).                         *)
(*                                                                         *)
(* States and controls are scalars (nx = nu = 1) over the integers; numpy  *)
(* nan is the value NaN.  Times are integer ticks.  The trajectory solver  *)
(* and the one-step model are external: the solver's outcome is a          *)
(* nondeterministic choice, the model step is a fixed deterministic map.   *)
(***************************************************************************)
EXTENDS Integers, Sequences, FiniteSets, TLC

(* ----------------------------- bounds ---------------------------------- *)
\* Simulator.dt in ticks, and the largest Simulator.Tf tried
dt == 2
MaxTf == 6
\* simulate calls made by one caller
MaxSims == 2
\* solver outcomes other than a clean solve, per run
MaxFail == 2
\* rows of x0_combinations / xf_combinations, repeats, batch size
MaxGrid == 2
MaxRep == 2
MaxTraj == 4
\* direct controller calls on one params bag
MaxCalls == 4

(* ----------------------------- numerics -------------------------------- *)
NaN == -999

IsNaN(v) == v = NaN

Abs(v) == IF v < 0 THEN -v ELSE v

\* rtol = 1e-3 as 1/rtol_den, atol = 10
rtol_den == 1000
atol == 10

\* np.allclose(a, b, rtol, atol) on scalars: |a-b| <= atol + rtol*|b|, false on nan
allclose(a, b) ==
    /\ ~IsNaN(a)
    /\ ~IsNaN(b)
    /\ rtol_den * Abs(a - b) <= rtol_den * atol + Abs(b)

\* int(np.ceil(a/b)) for a >= 0, b > 0
CeilDiv(a, b) == (a + b - 1) \div b

\* int(np.round(a/b)) for a >= 0, b > 0: halves go to the even neighbour
RoundDiv(a, b) ==
    LET q == a \div b
        r == a % b
    IN  IF 2 * r < b THEN q
        ELSE IF 2 * r > b THEN q + 1
        ELSE IF q % 2 = 0 THEN q ELSE q + 1

\* int(a/b) for a >= 0, b > 0
FloorDiv(a, b) == a \div b

\* a[1:]
Rest(s) == IF Len(s) = 0 THEN << >> ELSE Tail(s)

\* np.full(n, v)
Full(n, v) == [q \in 1..n |-> v]

AnyNaN(s) == \E q \in 1..Len(s) : IsNaN(s[q])

(* ------------------------ external collaborators ----------------------- *)
\* impact_model.sim_step(x0, u, T): deterministic, nan in gives nan out
sim_step(x, u) == IF IsNaN(x) \/ IsNaN(u) THEN NaN ELSE x + u

\* What solve_limited + sol.sample can produce for a horizon of N samples+1:
\*   ok        a plan from x0 that reaches xf
\*   mismatch  a plan whose first state is off x0 by more than the tolerance
\*   nan       a plan of nan
\*   nanU      a plan with finite states and a nan control sample
\*   raise     the solve throws
SolverKinds == {"ok", "mismatch", "nan", "nanU", "raise"}

SolverX(x0, xf, N, kind) ==
    CASE kind = "nan"      -> Full(N + 1, NaN)
      [] kind = "mismatch" -> [q \in 1..(N + 1) |-> IF q = 1 THEN x0 + atol + 1 ELSE xf]
      [] OTHER             -> [q \in 1..(N + 1) |-> IF q = 1 THEN x0 ELSE xf]

\* A control sampling without the sample of the horizon's end
SolverU_short(x0, xf, N, kind) ==
    CASE kind = "nan" -> Full(N, NaN)
      [] OTHER        -> [q \in 1..N |-> IF q = 1 THEN xf - x0 ELSE 0]

SolverU(x0, xf, N, kind) ==
    CASE kind = "nan"  -> Full(N + 1, NaN)
      [] kind = "nanU" -> [q \in 1..(N + 1) |-> IF q = N + 1 THEN NaN
                                                 ELSE IF q = 1 THEN xf - x0 ELSE 0]
      [] OTHER         -> [q \in 1..(N + 1) |-> IF q = 1 THEN xf - x0 ELSE 0]

(* --------------------------- params bag -------------------------------- *)
\* param = {"time2go": Tf, "dt": dt}; time2go is the rational t2g_num/t2g_den.
\* has_guess: the keys init_guess_X / init_guess_U are present.
\* A bag that arrives with a guess already in it
NewParam_stale(Tf_) ==
    [t2g_num |-> Tf_, t2g_den |-> 1, dt |-> dt, current_index |-> 0,
     has_guess |-> TRUE, init_guess_X |-> <<0>>, init_guess_U |-> <<0>>]

NewParam(Tf_) ==
    [t2g_num |-> Tf_, t2g_den |-> 1, dt |-> dt, current_index |-> 0,
     has_guess |-> FALSE, init_guess_X |-> << >>, init_guess_U |-> << >>]

(* ------------------------------ MPC ------------------------------------ *)
default_u == NaN

\* MPC.control_plan: the returned (U, X), the params bag and the failure
\* flag afterwards, whether the notice was printed, whether the call raised.
MPC_control_plan(x0, xf, param, MPC_failed, kind) ==
    LET N_steps == RoundDiv(param.t2g_num, param.t2g_den * param.dt)
        X0 == Full(N_steps + 1, NaN)
        solved == kind # "raise"
        Xs == SolverX(x0, xf, N_steps, kind)
        Us == SolverU(x0, xf, N_steps, kind)
        \* lines 178-179 run before the check of line 182
        saved == IF solved
                 THEN [param EXCEPT !.has_guess = TRUE,
                                    !.init_guess_X = Rest(Xs),
                                    !.init_guess_U = Rest(Us)]
                 ELSE param
        passed == solved /\ allclose(Xs[1], x0)
    IN  IF passed
        THEN [U |-> Us, X |-> Xs, param |-> saved, MPC_failed |-> MPC_failed,
              notice |-> FALSE, failed |-> FALSE, raised |-> FALSE]
        ELSE IF saved.has_guess
        THEN [U |-> saved.init_guess_U, X |-> saved.init_guess_X,
              param |-> [saved EXCEPT !.init_guess_X = Rest(saved.init_guess_X),
                                      !.init_guess_U = Rest(saved.init_guess_U)],
              MPC_failed |-> TRUE, notice |-> ~MPC_failed, failed |-> TRUE,
              raised |-> FALSE]
        ELSE [U |-> Full(N_steps + 1, default_u), X |-> X0, param |-> saved,
              MPC_failed |-> TRUE, notice |-> ~MPC_failed, failed |-> TRUE,
              raised |-> FALSE]


\* Calls that did not reach control_plan report an empty plan.
NoPlan == [U |-> << >>, X |-> << >>]

\* MPC.control_action.  solved: the solver was invoked.  raised: U[0] indexed
\* an empty array (IndexError), after the bag was already updated.
MPC_control_action(x0, xf, param, MPC_failed, OCP, kind) ==
    IF OCP /\ param.has_guess
    THEN LET Uc == param.init_guess_U
         IN  [u |-> IF Len(Uc) = 0 THEN NaN ELSE Uc[1],
              param |-> [param EXCEPT !.init_guess_U = Rest(Uc)],
              MPC_failed |-> MPC_failed, notice |-> FALSE, failed |-> FALSE,
              solved |-> FALSE, raised |-> Len(Uc) = 0, plan_raised |-> FALSE,
              plan |-> NoPlan]
    ELSE LET r == MPC_control_plan(x0, xf, param, MPC_failed, kind)
         IN  [u |-> IF Len(r.U) = 0 THEN NaN ELSE r.U[1],
              param |-> r.param,
              MPC_failed |-> r.MPC_failed, notice |-> r.notice, failed |-> r.failed,
              solved |-> TRUE, raised |-> Len(r.U) = 0, plan_raised |-> r.raised,
              plan |-> [U |-> r.U, X |-> r.X]]

\* MPC.sim_termination: the flag MPC_failed afterwards
MPC_sim_termination == FALSE

(* -------------------------- NullController ----------------------------- *)
\* NullController.control_action: np.zeros(nu)
Null_control_action == 0

\* Which controllers return a plan from control_plan (the others return None)
Plans(c) == c = "MPC"

Controllers == {"MPC", "Null"}

(* ------------------------------ state ---------------------------------- *)
VARIABLES
    Tf,          \* Simulator.Tf, in ticks
    ctrl,        \* the controller's class
    OCP_mode,    \* MPC.OCP_mode
    MPC_failed,  \* MPC.MPC_failed
    pc,          \* "idle", "sim" (inside simulate's loop), "multi" (inside
                 \* simulate_multi's loops), "pruned", "done", "raised"
    closed_loop, x0, xf, now, X, U, param,    \* the simulate call in progress
    ret,         \* what the last simulate call returned
    exc,         \* the exception that left the last call, "" when none
    budget,      \* solver outcomes other than "ok" still allowed
    nsims,       \* simulate calls made
    termCalls,   \* sim_termination calls made by the simulate call in progress
    notices,     \* "MPC failed" notices printed during that call
    fails,       \* failed solves during that call
    flagAtStart, \* MPC_failed as the call found it
    last,        \* the last controller call: arguments, bag before and after, result
    nx0, nxf, n_times, i, j, k, cnt,          \* simulate_multi's arguments and loop
    X_series, U_series, R_series, T_series,   \* its four arrays
    order,       \* the (i, j, k) of each simulate call it made
    ncalls,      \* direct controller calls made
    noise_u,     \* Simulator.noise_u, the actuation noise level
    noise_dyn,   \* Simulator.noise_dyn, the process noise level
    wlog,        \* the noise of the last closed-loop pass
    lists,       \* the list objects of the process; lists[1] is the list of
                 \* the class attribute NNMPC.loss_history
    nn,          \* the NNMPC instances of the process
    disk,        \* the artifact at the path save_nnmpc and load_nnmpc use
    nparams,     \* parameter vectors produced so far by the optimizer
    tr,          \* the last train_nn call
    ld,          \* the last load_nnmpc call
    data,        \* the dataset the caller holds
    cl,          \* the last clean_dataset call
    sims_file,   \* the dataset file at sims_path
    loaded,      \* what load_sim_data returned
    batch,       \* the caller's X_series, U_series, R_series, T_series
    arr,         \* the last arrange_sim_data call
    grid,        \* the last get_states_grid call
    clog         \* the control_action calls of the closed loop in progress

simVars == <<pc, closed_loop, x0, xf, now, X, U, param, ret, exc>>
ctlVars == <<Tf, ctrl, OCP_mode, MPC_failed>>
ghostVars == <<budget, nsims, termCalls, notices, fails, flagAtStart, last, ncalls>>
multiVars == <<nx0, nxf, n_times, i, j, k, cnt, X_series, U_series, R_series,
               T_series, order>>
nnVars == <<lists, nn, disk, nparams, tr, ld, data, cl>>
pipeVars == <<sims_file, loaded, batch, arr, grid>>
quietVars == <<noise_u, noise_dyn, nnVars, pipeVars>>
otherVars == <<quietVars, clog>>
vars == <<simVars, ctlVars, ghostVars, multiVars, wlog, otherVars>>

\* x0_combinations and xf_combinations: row q of each grid
x0_set(q) == q
xf_set(q) == 20 * q

NoRet == [X |-> << >>, U |-> << >>, t |-> << >>, valid |-> FALSE]
NoCall == [op |-> "none", kind |-> "ok", x0 |-> 0, pre |-> NewParam(0),
           post |-> NewParam(0), solved |-> FALSE, failed |-> FALSE,
           raised |-> FALSE, plan_raised |-> FALSE, u |-> 0, plan |-> NoPlan]

\* N_steps = int(np.ceil(Tf/dt)) and t = np.linspace(0, Tf, N_steps+1); the
\* samples of t are kept as numerators over N_steps.
N_sim == CeilDiv(Tf, dt)
linspace == [q \in 1..(N_sim + 1) |-> (q - 1) * Tf]

\* What the solver may do when asked to start from state x
KindsFor(x) ==
    IF IsNaN(x) THEN {"nan", "raise"}
    ELSE IF budget > 0 THEN SolverKinds ELSE {"ok"}

Spend(x, kind) == IF IsNaN(x) \/ kind = "ok" THEN budget ELSE budget - 1


(* ---------------------------- Simulator -------------------------------- *)
\* A simulate_multi call is in progress
InMulti == nx0 > 0

\* controller.control_action(x, xf, param) for the controller in use
ControlAction(x, xf_, p, kind) ==
    IF ctrl = "MPC"
    THEN MPC_control_action(x, xf_, p, MPC_failed, OCP_mode, kind)
    ELSE [u |-> Null_control_action, param |-> p, MPC_failed |-> MPC_failed,
          notice |-> FALSE, failed |-> FALSE, solved |-> FALSE, raised |-> FALSE,
          plan_raised |-> FALSE, plan |-> NoPlan]

\* controller.sim_termination(): MPC_failed afterwards (a no-op by default)
SimTermination(flag) == IF ctrl = "MPC" THEN MPC_sim_termination ELSE flag

\* The next control_action call reaches the solver
WillSolve(p) == ctrl = "MPC" /\ ~(OCP_mode /\ p.has_guess)

CallRecord(op, kind, x, pre, r) ==
    [op |-> op, kind |-> kind, x0 |-> x, pre |-> pre, post |-> r.param,
     solved |-> r.solved, failed |-> r.failed, raised |-> r.raised,
     plan_raised |-> r.plan_raised, u |-> r.u, plan |-> r.plan]

\* One time unit in ticks, so that 0.5 time units is a whole number of ticks
ticks_per_unit == 4

\* The settling threshold of line 47, 0.5 = thr_num / thr_den time units
thr_num == 1
thr_den == 2

\* time2go > 0.5 for a time2go of num/den ticks
PastSettling(num, den) == num * thr_den > thr_num * ticks_per_unit * den

\* A generator that draws noise whatever the level
Draw_always(sigma) == {0 - 1, 0, 1}

\* np.random.normal(0, sigma): exactly 0 when sigma is 0, otherwise a draw on
\* either side of 0 or 0 itself
Draw(sigma) == IF sigma = 0 THEN {0} ELSE {0 - sigma, 0, sigma}

\* v + w in floating point
AddNoise(v, w) == IF IsNaN(v) THEN NaN ELSE v + w

\* The noise levels a Simulator is configured with
NoiseLevels == {0, 1}

NoNoise == [valid |-> FALSE, t2g_num |-> 0, t2g_den |-> 1, branch |-> FALSE,
            sigma |-> 0, w |-> 0, before |-> 0, after |-> 0]

\* One control_action call of the closed loop: the pass, the state and the
\* time2go it was given, the action it returned
Called(pass, x, p, u) ==
    [k |-> pass, x |-> x, t2g_num |-> p.t2g_num, t2g_den |-> p.t2g_den, u |-> u]

\* simulate, lines 28-35 with closed_loop: the arrays, the fresh bag
EnterClosed(x0_, xf_) ==
    /\ closed_loop' = TRUE
    /\ x0' = x0_
    /\ xf' = xf_
    /\ now' = 0
    /\ X' = [q \in 1..(N_sim + 1) |-> IF q = 1 THEN x0_ ELSE NaN]
    /\ U' = Full(N_sim + 1, NaN)
    /\ param' = NewParam(Tf)
    /\ ret' = NoRet
    /\ exc' = ""
    /\ termCalls' = 0
    /\ notices' = 0
    /\ fails' = 0
    /\ flagAtStart' = MPC_failed
    /\ nsims' = nsims + 1
    /\ wlog' = NoNoise
    /\ clog' = << >>
    /\ pc' = "sim"

\* simulate, lines 37-48: one pass of the closed loop
SimStep ==
    /\ UNCHANGED quietVars
    /\ pc = "sim"
    /\ now < N_sim
    /\ LET p1 == [param EXCEPT !.t2g_num = Tf * (N_sim - now), !.t2g_den = N_sim,
                               !.current_index = now]
           x == X[now + 1]
       IN  \E kind \in (IF WillSolve(p1) THEN KindsFor(x) ELSE {"ok"}) :
             LET r == ControlAction(x, xf, p1, kind)
                 branch == PastSettling(p1.t2g_num, p1.t2g_den)
                 sigma == IF branch THEN noise_dyn ELSE 0
             IN  /\ param' = r.param
                 /\ MPC_failed' = r.MPC_failed
                 /\ notices' = notices + (IF r.notice THEN 1 ELSE 0)
                 /\ fails' = fails + (IF r.failed THEN 1 ELSE 0)
                 /\ budget' = IF r.solved THEN Spend(x, kind) ELSE budget
                 /\ last' = CallRecord("action", kind, x, p1, r)
                 /\ clog' = Append(clog, Called(now, x, p1, r.u))
                 /\ IF r.raised
                    THEN /\ pc' = "raised"
                         /\ exc' = "IndexError"
                         /\ UNCHANGED <<X, U, now, wlog>>
                    ELSE \E wu \in Draw(noise_u), wx \in Draw(sigma) :
                           LET u1 == AddNoise(r.u, wu)
                               x1 == sim_step(x, u1)
                           IN  /\ U' = [U EXCEPT ![now + 1] = u1]
                               /\ X' = [X EXCEPT ![now + 2] = AddNoise(x1, wx)]
                               /\ wlog' = [valid |-> TRUE, t2g_num |-> p1.t2g_num,
                                           t2g_den |-> p1.t2g_den, branch |-> branch,
                                           sigma |-> sigma, w |-> wx, before |-> x1,
                                           after |-> AddNoise(x1, wx)]
                               /\ now' = now + 1
                               /\ UNCHANGED <<pc, exc>>
    /\ UNCHANGED <<closed_loop, x0, xf, ret, Tf, ctrl, OCP_mode, nsims, termCalls,
                   flagAtStart, ncalls, multiVars>>

\* simulate, line 54: U[-1] = U[-2]
RepeatLast(Us) == [Us EXCEPT ![Len(Us)] = Us[Len(Us) - 1]]

\* simulate, lines 54-63 after the closed loop, for a direct caller
SimReturn ==
    /\ UNCHANGED <<wlog, otherVars>>
    /\ pc = "sim"
    /\ now = N_sim
    /\ ~InMulti
    /\ U' = RepeatLast(U)
    /\ MPC_failed' = SimTermination(MPC_failed)
    /\ termCalls' = termCalls + 1
    /\ ret' = [X |-> X, U |-> U', t |-> linspace, valid |-> TRUE]
    /\ pc' = "idle"
    /\ UNCHANGED <<closed_loop, x0, xf, now, X, param, exc, Tf, ctrl, OCP_mode,
                   budget, nsims, notices, fails, flagAtStart, last, ncalls,
                   multiVars>>

\* simulate, lines 56-63 with closed_loop false: the plan, the reshapes, the
\* termination.  exc is "" when the call returns.
OpenLoop(x0_, xf_, kind) ==
    LET p0 == NewParam(Tf)
    IN  IF ~Plans(ctrl)
        THEN \* U, X = None
             [exc |-> "TypeError", X |-> << >>, U |-> << >>, param |-> p0,
              MPC_failed |-> MPC_failed, notice |-> FALSE, failed |-> FALSE,
              term |-> 0, plan |-> NoPlan, solved |-> FALSE, plan_raised |-> FALSE]
        ELSE LET r == MPC_control_plan(x0_, xf_, p0, MPC_failed, kind)
                 fits == Len(r.X) = N_sim + 1 /\ Len(r.U) = N_sim + 1
             IN  [exc |-> IF fits THEN "" ELSE "ValueError",
                  X |-> r.X, U |-> r.U, param |-> r.param,
                  MPC_failed |-> IF fits THEN SimTermination(r.MPC_failed)
                                 ELSE r.MPC_failed,
                  notice |-> r.notice, failed |-> r.failed,
                  term |-> IF fits THEN 1 ELSE 0,
                  plan |-> [U |-> r.U, X |-> r.X], solved |-> TRUE,
                  plan_raised |-> r.raised]

\* The part of an open-loop simulate call that both callers share
OpenEffects(x0_, xf_, kind, o) ==
    /\ closed_loop' = FALSE
    /\ x0' = x0_
    /\ xf' = xf_
    /\ now' = 0
    /\ X' = o.X
    /\ U' = o.U
    /\ param' = o.param
    /\ MPC_failed' = o.MPC_failed
    /\ termCalls' = o.term
    /\ notices' = IF o.notice THEN 1 ELSE 0
    /\ fails' = IF o.failed THEN 1 ELSE 0
    /\ flagAtStart' = MPC_failed
    /\ budget' = IF o.solved THEN Spend(x0_, kind) ELSE budget
    /\ nsims' = nsims + 1
    /\ exc' = o.exc
    /\ last' = [op |-> "plan", kind |-> kind, x0 |-> x0_, pre |-> NewParam(Tf),
                post |-> o.param, solved |-> o.solved, failed |-> o.failed,
                raised |-> FALSE, plan_raised |-> o.plan_raised, u |-> 0,
                plan |-> o.plan]
    /\ ret' = IF o.exc = ""
              THEN [X |-> o.X, U |-> o.U, t |-> linspace, valid |-> TRUE]
              ELSE NoRet

\* A caller may call simulate when no call is in progress, also after one
\* that raised.
CanCall == pc \in {"idle", "raised"} /\ ~InMulti /\ nsims < MaxSims

CallSimulateClosed ==
    /\ UNCHANGED quietVars
    /\ CanCall
    /\ EnterClosed(x0_set(1), xf_set(1))
    /\ UNCHANGED <<Tf, ctrl, OCP_mode, MPC_failed, budget, last, ncalls, multiVars>>

CallSimulateOpen ==
    /\ UNCHANGED <<wlog, otherVars>>
    /\ CanCall
    /\ \E kind \in (IF Plans(ctrl) THEN KindsFor(x0_set(1)) ELSE {"ok"}) :
         LET o == OpenLoop(x0_set(1), xf_set(1), kind)
         IN  /\ OpenEffects(x0_set(1), xf_set(1), kind, o)
             /\ pc' = IF o.exc = "" THEN "idle" ELSE "raised"
    /\ UNCHANGED <<Tf, ctrl, OCP_mode, ncalls, multiVars>>

(* -------------------------- simulate_multi ----------------------------- *)
\* N_trajectories, line 67
N_trajectories == nx0 * nxf * n_times

\* A row of one of the four arrays, with the simulate call it came from
\* (0: never assigned)
Row(id, v) == [traj |-> id, v |-> v]

\* np.ndarray([N_trajectories, N_points+1, .]) * np.nan, lines 71-74
EmptySeries(n) == [q \in 1..n |-> Row(0, Full(N_sim + 1, NaN))]

\* The loops of lines 76-78 as one counter: x0 outer, xf middle, repeat inner
AdvanceLoop_xfOuter(a, b, c) ==
    IF c + 1 < n_times THEN <<a, b, c + 1>>
    ELSE IF a + 1 < nx0 THEN <<a + 1, b, 0>>
    ELSE <<IF b + 1 < nxf THEN 0 ELSE nx0, b + 1, 0>>

AdvanceLoop(a, b, c) ==
    IF c + 1 < n_times THEN <<a, b, c + 1>>
    ELSE IF b + 1 < nxf THEN <<a, b + 1, 0>>
    ELSE <<a + 1, 0, 0>>

\* The loops have run out
LoopDone == i >= nx0

\* simulate_multi, lines 91-96: the trajectory into row cnt, the loop onwards
Store(Xt, Ut, xft) ==
    LET nxt == AdvanceLoop(i, j, k)
    IN  /\ X_series' = [X_series EXCEPT ![cnt + 1] = Row(cnt + 1, Xt)]
        /\ U_series' = [U_series EXCEPT ![cnt + 1] = Row(cnt + 1, Ut)]
        /\ R_series' = [R_series EXCEPT ![cnt + 1] = Row(cnt + 1, Full(N_sim + 1, xft))]
        /\ T_series' = [T_series EXCEPT ![cnt + 1] = Row(cnt + 1, linspace)]
        /\ order' = Append(order, <<i, j, k>>)
        /\ cnt' = cnt + 1
        /\ i' = nxt[1]
        /\ j' = nxt[2]
        /\ k' = nxt[3]
        /\ UNCHANGED <<nx0, nxf, n_times>>

\* simulate_multi, lines 82-86, closed loop: into simulate
MultiCallClosed ==
    /\ UNCHANGED quietVars
    /\ pc = "multi"
    /\ ~LoopDone
    /\ closed_loop
    /\ EnterClosed(x0_set(i + 1), xf_set(j + 1))
    /\ UNCHANGED <<Tf, ctrl, OCP_mode, MPC_failed, budget, last, ncalls, multiVars>>

\* simulate returns into simulate_multi, lines 54-63 and 91-96
MultiStore ==
    /\ UNCHANGED <<wlog, otherVars>>
    /\ pc = "sim"
    /\ now = N_sim
    /\ InMulti
    /\ U' = RepeatLast(U)
    /\ MPC_failed' = SimTermination(MPC_failed)
    /\ termCalls' = termCalls + 1
    /\ ret' = [X |-> X, U |-> U', t |-> linspace, valid |-> TRUE]
    /\ Store(X, U', xf)
    /\ pc' = "multi"
    /\ UNCHANGED <<closed_loop, x0, xf, now, X, param, exc, Tf, ctrl, OCP_mode,
                   budget, nsims, notices, fails, flagAtStart, last, ncalls>>

\* simulate_multi, lines 82-96, open loop: the whole simulate call and the store
MultiCallOpen ==
    /\ UNCHANGED <<wlog, otherVars>>
    /\ pc = "multi"
    /\ ~LoopDone
    /\ ~closed_loop
    /\ \E kind \in (IF Plans(ctrl) THEN KindsFor(x0_set(i + 1)) ELSE {"ok"}) :
         LET o == OpenLoop(x0_set(i + 1), xf_set(j + 1), kind)
         IN  /\ OpenEffects(x0_set(i + 1), xf_set(j + 1), kind, o)
             /\ IF o.exc = ""
                THEN /\ Store(o.X, o.U, xf_set(j + 1))
                     /\ pc' = "multi"
                ELSE /\ pc' = "raised"
                     /\ UNCHANGED multiVars
    /\ UNCHANGED <<Tf, ctrl, OCP_mode, ncalls>>

\* lines 99-103: the rows of series whose trajectory has no nan in Xs
PruneRows_own(series, Xs) ==
    SelectSeq(series, LAMBDA row : ~AnyNaN(row.v))

PruneRows(series, Xs) ==
    LET keep == {q \in 1..Len(Xs) : ~AnyNaN(Xs[q].v)}
        F[n \in 0..Len(series)] ==
            IF n = 0 THEN << >>
            ELSE IF n \in keep THEN Append(F[n - 1], series[n]) ELSE F[n - 1]
    IN  F[Len(series)]

\* simulate_multi, lines 98-110: the nan trajectories out, the batch returned
Prune ==
    /\ UNCHANGED <<wlog, otherVars>>
    /\ pc = "multi"
    /\ LoopDone
    /\ X_series' = PruneRows(X_series, X_series)
    /\ U_series' = PruneRows(U_series, X_series)
    /\ R_series' = PruneRows(R_series, X_series)
    /\ T_series' = PruneRows(T_series, X_series)
    /\ pc' = "done"
    /\ UNCHANGED <<closed_loop, x0, xf, now, X, U, param, ret, exc, ctlVars,
                   ghostVars, nx0, nxf, n_times, i, j, k, cnt, order>>

\* remove_sims, lines 274-278: np.delete of the rows where condition holds
\* at some sample; cond[q][s] is the condition at sample s of trajectory q
DeleteRows(series, cond) ==
    LET sims2del == {q \in 1..Len(cond) : \E s \in 1..Len(cond[q]) : cond[q][s]}
        F[n \in 0..Len(series)] ==
            IF n = 0 THEN << >>
            ELSE IF n \in sims2del THEN F[n - 1] ELSE Append(F[n - 1], series[n])
    IN  F[Len(series)]

\* The caller's condition X_series[:,:,0] > thr (nan > thr is false)
Above(series, thr) ==
    [q \in 1..Len(series) |->
        [s \in 1..Len(series[q].v) |->
            ~IsNaN(series[q].v[s]) /\ series[q].v[s] > thr]]

Thresholds == {xf_set(q) - 5 : q \in 1..MaxGrid}

\* remove_sims on the batch simulate_multi returned
RemoveSims ==
    /\ UNCHANGED <<wlog, otherVars>>
    /\ pc = "done"
    /\ \E thr \in Thresholds :
         LET condition == Above(X_series, thr)
         IN  /\ X_series' = DeleteRows(X_series, condition)
             /\ U_series' = DeleteRows(U_series, condition)
             /\ R_series' = DeleteRows(R_series, condition)
             /\ T_series' = DeleteRows(T_series, condition)
    /\ pc' = "removed"
    /\ UNCHANGED <<closed_loop, x0, xf, now, X, U, param, ret, exc, ctlVars,
                   ghostVars, nx0, nxf, n_times, i, j, k, cnt, order>>

(* --------------------------- LearnedController ------------------------- *)
MaxInst == 2      \* NNMPC instances in one process
MaxNx == 1        \* states of the model an NNMPC is built from
MaxEpochs == 2    \* n_epochs of a train_nn call
MaxTrain == 2     \* train_nn calls in one process
MaxLoss == 2      \* the finite losses are 1..MaxLoss

\* np.inf
Inf == 999

\* None for n_inputs and n_outputs
None == 0 - 1

\* None for nn_model, for a scaler and for selected_inputs
NoModel == [some |-> FALSE, in_features |-> 0, out_features |-> 0, theta |-> 0]
NoScaler == [some |-> FALSE, lo |-> << >>, hi |-> << >>]
NoMask == [some |-> FALSE, v |-> << >>]

Mask(v) == [some |-> TRUE, v |-> v]

\* The class attributes of NNMPC, lines 236-243: what an instance reads for
\* an attribute it never assigned.  loss_history is list object 1.  made
\* tells a slot in use; nx remembers the number of states of the model the
\* network was built for (0: unknown), which the program keeps nowhere.
ClassAttrs ==
    [made |-> FALSE, nx |-> 0, n_inputs |-> None, n_outputs |-> None,
     selected_inputs |-> NoMask, use_error |-> FALSE, nn_model |-> NoModel,
     scalerIn |-> NoScaler, scalerOut |-> NoScaler, loss_history |-> 1]

\* sum(selected_inputs)
Count(mask) == Cardinality({q \in 1..Len(mask) : mask[q]})

\* NNMPC(impact_model, selected_inputs, use_error); nx_ = 0 for no model
NNMPC_init(nx_, nu_, selected_inputs, use_error) ==
    LET sel == IF nx_ > 0 /\ ~selected_inputs.some
               THEN Mask(Full(nx_, TRUE))
               ELSE selected_inputs
    IN  [ClassAttrs EXCEPT
           !.made = TRUE,
           !.nx = nx_,
           !.n_inputs = IF nx_ = 0 THEN None
                        ELSE IF use_error THEN Count(sel.v) + 1
                        ELSE Count(sel.v) * 2 + 1,
           !.n_outputs = IF nx_ = 0 THEN None ELSE nu_,
           !.use_error = use_error,
           !.selected_inputs = sel]

\* define_nn_structure: a Sequential from n_inputs to n_outputs with fresh
\* parameters theta
define_nn_structure(c, theta) ==
    [c EXCEPT !.nn_model = [some |-> TRUE, in_features |-> c.n_inputs,
                            out_features |-> c.n_outputs, theta |-> theta]]

\* The keys of the bundle besides "nn_model"
OptionalKeys == {"loss_history", "scalerIn", "scalerOut", "use_error",
                 "selected_inputs"}

\* No artifact.  by and by_history remember the controller that saved the
\* artifact and its loss history then, which the file does not hold.
NoFile == [exists |-> FALSE, by |-> ClassAttrs, by_history |-> << >>,
           bundle |-> FALSE, keys |-> {},
           nn_model |-> NoModel,
           loss_history |-> << >>, scalerIn |-> NoScaler, scalerOut |-> NoScaler,
           use_error |-> FALSE, selected_inputs |-> NoMask]

\* save_nnmpc: the pickled bundle, with the content of the loss history
save_nnmpc(c, ls) ==
    [exists |-> TRUE, by |-> c, by_history |-> ls[c.loss_history],
     bundle |-> TRUE, keys |-> OptionalKeys,
     nn_model |-> c.nn_model, loss_history |-> ls[c.loss_history],
     scalerIn |-> c.scalerIn, scalerOut |-> c.scalerOut,
     use_error |-> c.use_error, selected_inputs |-> c.selected_inputs]

\* The default of lines 285-286
DefaultMask(n_inputs) == Mask(Full((n_inputs - 1) \div 2, TRUE))

\* A load_nnmpc that reads the model and none of the other keys
load_nnmpc_modelOnly(art, newid) ==
    [raised |-> ~art.nn_model.some,
     c |-> [NNMPC_init(0, 0, NoMask, FALSE) EXCEPT
              !.nx = art.by.nx,
              !.nn_model = art.nn_model,
              !.n_inputs = art.nn_model.in_features,
              !.n_outputs = art.nn_model.out_features,
              !.selected_inputs = DefaultMask(art.nn_model.in_features)],
     new_list |-> FALSE]

\* load_nnmpc: the instance it builds from artifact art; a stored loss
\* history is unpickled into a new list object, newid.  raised: the
\* subscript of line 282 on a None model.
load_nnmpc(art, newid) ==
    LET has(key) == art.bundle /\ key \in art.keys
        c0 == NNMPC_init(0, 0, NoMask, FALSE)
        c1 == [c0 EXCEPT
                 !.nn_model = art.nn_model,
                 !.loss_history = IF has("loss_history") THEN newid ELSE @,
                 !.scalerIn = IF has("scalerIn") THEN art.scalerIn ELSE @,
                 !.scalerOut = IF has("scalerOut") THEN art.scalerOut ELSE @,
                 !.use_error = IF has("use_error") THEN art.use_error ELSE @,
                 !.selected_inputs = IF has("selected_inputs")
                                     THEN art.selected_inputs ELSE @]
        c2 == [c1 EXCEPT !.nx = art.by.nx,
                         !.n_inputs = c1.nn_model.in_features,
                         !.n_outputs = c1.nn_model.out_features]
        c3 == IF c2.selected_inputs.some THEN c2
              ELSE [c2 EXCEPT !.selected_inputs = DefaultMask(c2.n_inputs)]
    IN  [raised |-> ~art.nn_model.some,
         c |-> c3,
         new_list |-> has("loss_history")]

\* x[mask] for a list of booleans: the empty list selects nothing, a list of
\* another length than x is an IndexError
Select(x, mask) ==
    LET F[n \in 0..Len(x)] ==
            IF n = 0 THEN << >>
            ELSE IF mask[n] THEN Append(F[n - 1], x[n]) ELSE F[n - 1]
    IN  IF Len(mask) = 0 THEN [err |-> "", v |-> << >>]
        ELSE IF Len(mask) # Len(x) THEN [err |-> "IndexError", v |-> << >>]
        ELSE [err |-> "", v |-> F[Len(x)]]

\* MinMaxScaler.transform to the range (-1, 1), column by column; a value is
\* kept as a numerator over its column's data range (1 for a constant column)
transform(sc, row) ==
    [q \in 1..Len(row) |->
        LET range == IF sc.hi[q] = sc.lo[q] THEN 1 ELSE sc.hi[q] - sc.lo[q]
        IN  <<2 * (row[q] - sc.lo[q]) - range, range>>]

\* NNMPC.control_action, lines 302-314.  The network and the inverse
\* transform are kept as what they are applied to: two outputs are equal
\* when parameters, scaled inputs and output scaler are.
NN_control_action(c, x0_, xf_, time2go) ==
    LET a == Select(x0_, c.selected_inputs.v)
        b == Select(xf_, c.selected_inputs.v)
        inputs == IF c.use_error
                  THEN [q \in 1..Len(a.v) |-> b.v[q] - a.v[q]] \o <<time2go>>
                  ELSE a.v \o b.v \o <<time2go>>
        err == IF a.err # "" THEN a.err
               ELSE IF ~c.scalerIn.some THEN "AttributeError"
               ELSE IF Len(c.scalerIn.lo) # Len(inputs) THEN "ValueError"
               ELSE IF ~c.nn_model.some THEN "TypeError"
               ELSE IF c.nn_model.in_features # Len(inputs) THEN "RuntimeError"
               ELSE IF ~c.scalerOut.some THEN "AttributeError"
               ELSE ""
    IN  [err |-> err,
         width |-> IF a.err = "" THEN Len(inputs) ELSE None,
         u |-> IF err # "" THEN << >>
               ELSE <<c.nn_model.theta, transform(c.scalerIn, inputs),
                      c.scalerOut.lo, c.scalerOut.hi>>]

\* a < b in floating point: false when either side is NaN
Lt(a, b) == ~IsNaN(a) /\ ~IsNaN(b) /\ a < b

Gt(a, b) == Lt(b, a)

\* np.max of a non-empty list: NaN when the list holds one
np_max(h) ==
    IF AnyNaN(h) THEN NaN
    ELSE CHOOSE m \in {h[q] : q \in 1..Len(h)} : \A q \in 1..Len(h) : h[q] <= m

\* np.min of a non-empty list: NaN when the list holds one
np_min(h) ==
    IF AnyNaN(h) THEN NaN
    ELSE CHOOSE m \in {h[q] : q \in 1..Len(h)} : \A q \in 1..Len(h) : m <= h[q]

\* A best_mse that every call starts from infinity
InitialBest_fresh(h) == Inf

\* line 404
InitialBest(h) == IF Len(h) > 0 THEN np_min(h) ELSE Inf

\* The parameters the optimizer leaves after epoch e of a call that found
\* fresh parameter vectors produced before it
AfterStep(fresh, e) == fresh + e

\* train_nn, lines 404-432, on parameters theta0 and loss history h, when
\* the epochs' losses are losses.  at[e] is the parameter vector the loss of
\* epoch e was computed at (line 411); the snapshot of line 425 is taken
\* after the step of line 417.
train_nn(theta0, h, losses, fresh) ==
    LET n == Len(losses)
        at == [e \in 1..n |-> IF e = 1 THEN theta0 ELSE AfterStep(fresh, e - 1)]
        F[e \in 0..n] ==
            IF e = 0
            THEN [best_mse |-> InitialBest(h), best_weights |-> theta0,
                  improved |-> 0]
            ELSE LET mse == losses[e]
                     better == Lt(mse, F[e - 1].best_mse)
                 IN  [best_mse |-> IF better THEN mse ELSE F[e - 1].best_mse,
                      best_weights |-> IF better THEN AfterStep(fresh, e)
                                       ELSE F[e - 1].best_weights,
                      improved |-> IF better THEN e ELSE F[e - 1].improved]
    IN  [theta |-> F[n].best_weights, best_mse |-> F[n].best_mse,
         best0 |-> F[0].best_mse, improved |-> F[n].improved, at |-> at,
         loss_history |-> h \o losses]

\* The k-th smallest value of a column
KthSmallest(col, rank) ==
    CHOOSE x \in {col[q] : q \in 1..Len(col)} :
        /\ Cardinality({q \in 1..Len(col) : col[q] < x}) < rank
        /\ Cardinality({q \in 1..Len(col) : col[q] <= x}) >= rank

\* Four times np.percentile(col, 25 * p) for p in 1..3, by linear
\* interpolation between the two nearest ranks
Quartile4(col, p) ==
    LET n == Len(col)
        idx == ((n - 1) * p) \div 4
        fr == ((n - 1) * p) % 4
        lo == KthSmallest(col, idx + 1)
        hi == KthSmallest(col, IF idx + 2 > n THEN n ELSE idx + 2)
    IN  4 * lo + fr * (hi - lo)

\* out_thresh = 1.5, the default of line 361
out_thresh_num == 3
out_thresh_den == 2

\* lines 370-374 for one column: lower_bound and upper_bound, both times
\* 4 * out_thresh_den
Band(col) ==
    LET Q1 == Quartile4(col, 1)
        Q3 == Quartile4(col, 3)
        IQR == Q3 - Q1
    IN  [lower_bound |-> out_thresh_den * Q1 - out_thresh_num * IQR,
         upper_bound |-> out_thresh_den * Q3 + out_thresh_num * IQR]

\* line 376 for one value of a column
InBand(band, x) ==
    /\ 4 * out_thresh_den * x >= band.lower_bound
    /\ 4 * out_thresh_den * x <= band.upper_bound

\* io[mask]: the rows at the indices keep, in order
Rows(io, keep) ==
    LET F[n \in 0..Len(io)] ==
            IF n = 0 THEN << >>
            ELSE IF n \in keep THEN Append(F[n - 1], io[n]) ELSE F[n - 1]
    IN  F[Len(io)]

Column(io, col) == [q \in 1..Len(io) |-> io[q][col]]

\* MinMaxScaler.fit on columns from..to of io
Fit(io, from, to) ==
    [some |-> TRUE,
     lo |-> [q \in 1..(to - from + 1) |->
               KthSmallest(Column(io, from + q - 1), 1)],
     hi |-> [q \in 1..(to - from + 1) |->
               KthSmallest(Column(io, from + q - 1), Len(io))]]

\* clean_dataset, lines 361-390, on the rows io of inputs and outputs side
\* by side.  raised: MinMaxScaler.fit on no rows.
clean_dataset(c, io) ==
    LET width == c.n_inputs + c.n_outputs
        finite == {q \in 1..Len(io) : ~AnyNaN(io[q])}
        io1 == Rows(io, finite)
        bands == [col \in 1..width |-> Band(Column(io1, col))]
        inband == {q \in 1..Len(io1) :
                     \A col \in 1..width : InBand(bands[col], io1[q][col])}
        io2 == Rows(io1, inband)
        fit == ~c.scalerIn.some
        raised == fit /\ Len(io2) = 0
    IN  [raised |-> raised,
         io |-> io2,
         n_nans |-> Len(io) - Len(io1),
         n_outliers |-> Len(io1) - Len(io2),
         c |-> IF fit /\ ~raised
               THEN [c EXCEPT !.scalerIn = Fit(io2, 1, c.n_inputs),
                              !.scalerOut = Fit(io2, c.n_inputs + 1, width)]
               ELSE IF raised
               THEN \* line 384 has assigned scalerIn when line 385 raises
                    [c EXCEPT !.scalerIn = [some |-> TRUE, lo |-> << >>,
                                            hi |-> << >>]]
               ELSE c]

\* The losses an epoch may compute
Losses == (1..MaxLoss) \cup {NaN}

NoTrain == [valid |-> FALSE, c |-> 0, calls |-> 0, losses |-> << >>, at |-> << >>,
            before |-> << >>, theta0 |-> 0, theta |-> 0, best0 |-> Inf,
            best_mse |-> Inf, improved |-> 0, prev_best |-> None,
            ended |-> [q \in 1..MaxInst |-> None], others |-> TRUE]
NoLoad == [valid |-> FALSE, raised |-> FALSE, c |-> 0, bundle |-> FALSE,
           keys |-> {}, history |-> << >>]
NoClean == [valid |-> FALSE, raised |-> FALSE, c |-> 0, again |-> FALSE,
            rows_in |-> 0, rows_out |-> 0, n_nans |-> 0, n_outliers |-> 0,
            fitted |-> FALSE, kept |-> TRUE]

\* The process before any NNMPC exists: the class attribute's empty list
NoNN ==
    /\ lists = << << >> >>
    /\ nn = [q \in 1..MaxInst |-> ClassAttrs]
    /\ disk = NoFile
    /\ nparams = 0
    /\ tr = NoTrain
    /\ ld = NoLoad
    /\ cl = NoClean

\* The history an instance reads as self.loss_history
History(c) == lists[c.loss_history]

\* The masks a caller may pass for a model of nx_ states: none, or one that
\* selects at least one state
Masks(nx_) == {NoMask} \cup {Mask(m) : m \in {f \in [1..nx_ -> BOOLEAN] : Count(f) > 0}}

\* The process works on its first controller; the later ones it builds or
\* loads, and reads
Worked(cid) == cid = 1 /\ nn[cid].made

\* c = NNMPC(model, selected_inputs, use_error).  The process builds all
\* its controllers for one model and with the arguments of the first.
Construct(cid) ==
    /\ pc = "nn"
    /\ ~nn[cid].made
    /\ \A q \in 1..(cid - 1) : nn[q].made
    /\ \E nx_ \in 1..MaxNx, use_error \in BOOLEAN :
         \E selected_inputs \in Masks(nx_) :
           /\ cid > 1 => /\ nx_ = nn[1].nx
                         /\ use_error = nn[1].use_error
                         /\ selected_inputs = nn[1].selected_inputs
           /\ nn' = [nn EXCEPT ![cid] = NNMPC_init(nx_, 1, selected_inputs, use_error)]
    /\ UNCHANGED <<lists, disk, nparams, tr, ld, data, cl>>

\* c.define_nn_structure(depth, width); nn.Linear(None, width) raises
DefineStructure(cid) ==
    /\ pc = "nn"
    /\ Worked(cid)
    /\ nn[cid].n_inputs # None
    /\ ~nn[cid].nn_model.some
    /\ nn' = [nn EXCEPT ![cid] = define_nn_structure(@, nparams + 1)]
    /\ nparams' = nparams + 1
    /\ UNCHANGED <<lists, disk, tr, ld, data, cl>>

\* The dataset the caller holds, arranged for a controller: the first input
\* column and the output column are the caller's, the other columns 0
Io(rows, width) ==
    [q \in 1..Len(rows) |->
        [col \in 1..width |->
            IF col = width THEN rows[q][2] ELSE IF col = 1 THEN rows[q][1] ELSE 0]]

Pairs(io) == [q \in 1..Len(io) |-> <<io[q][1], io[q][Len(io[q])]>>]

\* c.clean_dataset(inputs, outputs) on the dataset the caller holds, which
\* it replaces by the rows returned
CleanDataset(cid) ==
    /\ pc = "nn"
    /\ Worked(cid)
    /\ nn[cid].n_inputs # None
    /\ Len(data) > 0
    /\ \E r \in {clean_dataset(nn[cid],
                                 Io(data, nn[cid].n_inputs + nn[cid].n_outputs))} :
           /\ nn' = [nn EXCEPT ![cid] = r.c]
           /\ data' = IF r.raised THEN data ELSE Pairs(r.io)
           /\ cl' = [valid |-> TRUE, raised |-> r.raised, c |-> cid,
                     again |-> cl.valid /\ ~cl.raised,
                     rows_in |-> Len(data), rows_out |-> Len(r.io),
                     n_nans |-> r.n_nans, n_outliers |-> r.n_outliers,
                     fitted |-> nn[cid].scalerIn.some,
                     kept |-> /\ r.c.scalerIn = nn[cid].scalerIn
                              /\ r.c.scalerOut = nn[cid].scalerOut]
    /\ UNCHANGED <<lists, disk, nparams, tr, ld>>

\* c.train_nn(inputs_train, outputs_train, n_epochs) for an n_epochs of
\* epochs; without scalers line 394 raises
TrainNN(cid, epochs) ==
    /\ pc = "nn"
    /\ Worked(cid)
    /\ nn[cid].nn_model.some
    /\ nn[cid].scalerIn.some
    /\ nn[cid].scalerOut.some
    /\ tr.calls < MaxTrain
    /\ \E n_epochs \in epochs :
         \E losses \in [1..n_epochs -> Losses] :
           LET c == nn[cid]
           IN  \E r \in {train_nn(c.nn_model.theta, History(c), losses, nparams)} :
               /\ lists' = [lists EXCEPT ![c.loss_history] = r.loss_history]
               /\ nn' = [nn EXCEPT ![cid].nn_model.theta = r.theta]
               /\ nparams' = nparams + n_epochs
               /\ tr' = [valid |-> TRUE, c |-> cid, calls |-> tr.calls + 1,
                         losses |-> losses, at |-> r.at, before |-> History(c),
                         theta0 |-> c.nn_model.theta, theta |-> r.theta,
                         best0 |-> r.best0, best_mse |-> r.best_mse,
                         improved |-> r.improved, prev_best |-> tr.ended[cid],
                         ended |-> [tr.ended EXCEPT ![cid] = r.best_mse],
                         others |-> \A q \in 1..MaxInst :
                                      (q # cid /\ nn[q].made) =>
                                        lists'[nn[q].loss_history] = History(nn[q])]
    /\ UNCHANGED <<disk, ld, data, cl>>

\* c.save_nnmpc(path), once in the process
SaveNNMPC(cid) ==
    /\ pc = "nn"
    /\ Worked(cid)
    /\ ~disk.exists
    /\ disk' = save_nnmpc(nn[cid], lists)
    /\ UNCHANGED <<lists, nn, nparams, tr, ld, data, cl>>

\* The artifact at the path was written before the keys absent were added
\* to the bundle, or before there was a bundle (bare): the model alone.
\* A program without use_error encoded absolutely, and one without
\* selected_inputs selected every state.
WithoutKeys(art, absent, bare) ==
    LET keys == IF bare THEN {} ELSE OptionalKeys \ absent
        keep(key, v, d) == IF key \in keys THEN v ELSE d
    IN  [exists |-> TRUE, by |-> art.by, by_history |-> art.by_history,
         bundle |-> ~bare, keys |-> keys,
         nn_model |-> art.nn_model,
         loss_history |-> keep("loss_history", art.loss_history, << >>),
         scalerIn |-> keep("scalerIn", art.scalerIn, NoScaler),
         scalerOut |-> keep("scalerOut", art.scalerOut, NoScaler),
         use_error |-> keep("use_error", art.use_error, FALSE),
         selected_inputs |-> keep("selected_inputs", art.selected_inputs, NoMask)]

OlderArtifact ==
    /\ pc = "nn"
    /\ disk.exists
    /\ disk.bundle
    /\ disk.keys = OptionalKeys
    /\ \E absent \in (SUBSET OptionalKeys) \ {{}}, bare \in BOOLEAN :
         /\ bare => absent = OptionalKeys
         /\ "use_error" \in absent => ~disk.use_error
         /\ "selected_inputs" \in absent =>
                Count(disk.selected_inputs.v) = Len(disk.selected_inputs.v)
         /\ disk' = WithoutKeys(disk, absent, bare)
    /\ UNCHANGED <<lists, nn, nparams, tr, ld, data, cl>>

\* c = NNMPC.load_nnmpc(path)
LoadNNMPC(cid) ==
    /\ pc = "nn"
    /\ ~nn[cid].made
    /\ \A q \in 1..(cid - 1) : nn[q].made
    /\ disk.exists
    /\ \E r \in {load_nnmpc(disk, Len(lists) + 1)} :
           /\ nn' = IF r.raised THEN nn ELSE [nn EXCEPT ![cid] = r.c]
           /\ lists' = IF ~r.raised /\ r.new_list
                       THEN Append(lists, disk.loss_history) ELSE lists
           /\ ld' = [valid |-> TRUE, raised |-> r.raised, c |-> cid,
                     bundle |-> disk.bundle, keys |-> disk.keys,
                     history |-> IF r.raised THEN << >>
                                 ELSE lists'[r.c.loss_history]]
    /\ UNCHANGED <<disk, nparams, tr, data, cl>>

\* The datasets a caller holds: DataLen rows of a first input and an output,
\* both a value of 0..MaxVal, in increasing order; the output of one row may
\* be NaN
DataLen == 5
MaxVal == 3

Profiles == {v \in [1..DataLen -> 0..MaxVal] : \A q \in 1..(DataLen - 1) : v[q] <= v[q + 1]}

Dataset(v, nan_row) ==
    [q \in 1..DataLen |-> <<v[q], IF q = nan_row THEN NaN ELSE v[q]>>]

Datasets == {Dataset(v, nan_row) : v \in Profiles, nan_row \in {0, 1}}

(* ------------- controllers without a planning model in use ------------- *)
\* The approximator is external: here the network that answers -1 on every
\* scaled input, which scalerOut.inverse_transform maps to the smallest
\* output it was fitted on
NetOutput(u) == u[3][1]

\* simulate, lines 37-48: one pass of the closed loop with the NNMPC nn[1]
\* as controller
SimStepNN ==
    /\ pc = "sim"
    /\ ctrl = "NNMPC"
    /\ now < N_sim
    /\ LET p1 == [param EXCEPT !.t2g_num = Tf * (N_sim - now), !.t2g_den = N_sim,
                               !.current_index = now]
           x == X[now + 1]
           branch == PastSettling(p1.t2g_num, p1.t2g_den)
           sigma == IF branch THEN noise_dyn ELSE 0
       IN  \E r \in {NN_control_action(nn[1], <<x>>, <<xf>>,
                                       p1.t2g_num \div p1.t2g_den)} :
             /\ param' = p1
             /\ last' = [op |-> "action", kind |-> "ok", x0 |-> x, pre |-> p1,
                         post |-> p1, solved |-> FALSE, failed |-> FALSE,
                         raised |-> r.err # "", plan_raised |-> FALSE,
                         u |-> IF r.err # "" THEN 0 ELSE NetOutput(r.u),
                         plan |-> NoPlan]
             /\ clog' = Append(clog, Called(now, x, p1, last'.u))
             /\ IF r.err # ""
                THEN /\ pc' = "raised"
                     /\ exc' = r.err
                     /\ UNCHANGED <<X, U, now, wlog>>
                ELSE \E wu \in Draw(noise_u), wx \in Draw(sigma) :
                       LET u1 == AddNoise(NetOutput(r.u), wu)
                           x1 == sim_step(x, u1)
                       IN  /\ U' = [U EXCEPT ![now + 1] = u1]
                           /\ X' = [X EXCEPT ![now + 2] = AddNoise(x1, wx)]
                           /\ wlog' = [valid |-> TRUE, t2g_num |-> p1.t2g_num,
                                       t2g_den |-> p1.t2g_den, branch |-> branch,
                                       sigma |-> sigma, w |-> wx, before |-> x1,
                                       after |-> AddNoise(x1, wx)]
                           /\ now' = now + 1
                           /\ UNCHANGED <<pc, exc>>
    /\ UNCHANGED <<closed_loop, x0, xf, ret, ctlVars, budget, nsims, termCalls,
                   notices, fails, flagAtStart, ncalls, multiVars, quietVars>>

\* controller.control_plan(x, xf, param) by a caller that keeps the bag, on
\* a controller whose control_plan is `return None` or `pass`
DirectPlanNone ==
    /\ pc = "idle"
    /\ ncalls < MaxCalls
    /\ ~Plans(ctrl)
    /\ \E t2g \in {m * dt : m \in 1..(MaxTf \div dt)} :
         LET p1 == [param EXCEPT !.t2g_num = t2g, !.t2g_den = 1]
         IN  /\ param' = p1
             /\ last' = [op |-> "plan", kind |-> "ok", x0 |-> x0_set(1),
                         pre |-> p1, post |-> p1, solved |-> FALSE,
                         failed |-> FALSE, raised |-> FALSE,
                         plan_raised |-> FALSE, u |-> 0, plan |-> NoPlan]
    /\ ncalls' = ncalls + 1
    /\ UNCHANGED <<pc, exc, closed_loop, x0, xf, now, X, U, ret, ctlVars, budget,
                   nsims, termCalls, notices, fails, flagAtStart, multiVars,
                   wlog, otherVars>>

(* ------------------------- the dataset pipeline ------------------------ *)
MaxRows == 2      \* trajectories in one array of a dataset file

\* An array of trajectories: shape[0] is Len(rows), shape[1] is cols
Arr(cols, rows) == [cols |-> cols, rows |-> rows]

\* np.empty((0, cols, .))
EmptyArr(cols) == Arr(cols, << >>)

NoDataset == [valid |-> FALSE, X |-> EmptyArr(0), U |-> EmptyArr(0),
              R |-> EmptyArr(0), T |-> EmptyArr(0)]

Dataset4(Xs, Us, Rs, Ts) == [valid |-> TRUE, X |-> Xs, U |-> Us, R |-> Rs, T |-> Ts]

\* save_sims, lines 116-124: the file afterwards; raised: an assert failed
save_sims(old, d) ==
    LET same0 == /\ Len(d.X.rows) = Len(d.U.rows)
                 /\ Len(d.U.rows) = Len(d.R.rows)
                 /\ Len(d.R.rows) = Len(d.T.rows)
        same1 == /\ d.X.cols = d.U.cols
                 /\ d.U.cols = d.R.cols
                 /\ d.R.cols = d.T.cols
    IN  IF same0 /\ same1
        THEN [raised |-> FALSE, file |-> d]
        ELSE [raised |-> TRUE, file |-> old]

\* load_sim_data, lines 126-132: the four arrays of the file as they are;
\* raised: np.load found no file
load_sim_data(file) == [raised |-> ~file.valid, d |-> file]

\* np.concatenate((a, b), axis=0); raised: the other dimensions differ
concatenate(a, b) ==
    [raised |-> a.cols # b.cols, a |-> Arr(a.cols, a.rows \o b.rows)]

\* Trajectory id of a file written under a horizon of Tf_f ticks with cols
\* samples: states, controls, targets, times (numerators over cols - 1)
FileX(id, cols) == Row(id, [q \in 1..cols |-> 10 * id + q])
FileU(id, cols) == Row(id, [q \in 1..cols |-> 5 * id + q])
FileR(id, cols) == Row(id, Full(cols, xf_set(1)))
FileT(id, cols, Tf_f) == Row(id, [q \in 1..cols |-> (q - 1) * Tf_f])

\* The horizons and sample counts files were written under
FileTfs == {dt, 2 * dt}
FileCols == {2, 3}

\* The files that may lie at sims_path: none, or four arrays of whatever
\* lengths their writer gave them
Files ==
    {NoDataset} \cup
    {Dataset4(Arr(cols, [q \in 1..mX |-> FileX(q, cols)]),
              Arr(cols, [q \in 1..mU |-> FileU(q, cols)]),
              Arr(cols, [q \in 1..mR |-> FileR(q, cols)]),
              Arr(cols, [q \in 1..mT |-> FileT(q, cols, Tf_f)])) :
        mX \in 1..MaxRows, mU \in 1..MaxRows, mR \in 1..MaxRows,
        mT \in 1..MaxRows, cols \in FileCols, Tf_f \in FileTfs}

\* a[:, 0:-1]: every trajectory without its final sample
DropLast_keepAll(a) == a

DropLast(a) ==
    Arr(IF a.cols = 0 THEN 0 ELSE a.cols - 1,
        [q \in 1..Len(a.rows) |->
            [a.rows[q] EXCEPT !.v = SubSeq(@, 1, Len(@) - 1)]])

\* a.reshape(-1, a.shape[-1]): the samples of all trajectories, row-major
Flat(a) ==
    [r \in 1..(Len(a.rows) * a.cols) |->
        a.rows[((r - 1) \div a.cols) + 1].v[((r - 1) % a.cols) + 1]]

\* np.max(a) of an array with at least one finite sample
amax(a) ==
    CHOOSE m \in {a.rows[q].v[s] : q \in 1..Len(a.rows), s \in 1..a.cols} :
        \A q \in 1..Len(a.rows), s \in 1..a.cols : a.rows[q].v[s] <= m

\* np.max(T_series) - T_series, line 335
TimeToGo(Ts) ==
    LET mx == amax(Ts)
    IN  Arr(Ts.cols,
            [q \in 1..Len(Ts.rows) |->
                [Ts.rows[q] EXCEPT !.v = [s \in 1..Len(@) |-> mx - @[s]]]])

\* arrange_sim_data, lines 331-359, for scalar states: err is the exception
\* that left the call, "" when it returned (inputs, outputs)
arrange_sim_data(c, d) ==
    LET empty == Len(d.T.rows) = 0 \/ d.T.cols = 0
        X_flat == Flat(DropLast(d.X))
        R_flat == Flat(DropLast(d.R))
        U_flat == Flat(DropLast(d.U))
        T2go_flat == IF empty THEN << >> ELSE Flat(DropLast(TimeToGo(d.T)))
        mask == c.selected_inputs.v
        masked == Len(mask) = 0 \/ Len(mask) = 1
        width == IF Len(mask) = 0 THEN 0 ELSE Count(mask)
        same == /\ Len(X_flat) = Len(R_flat)
                /\ Len(R_flat) = Len(T2go_flat)
                /\ Len(T2go_flat) = Len(U_flat)
        fits == IF c.use_error THEN width + 1 = c.n_inputs
                ELSE 2 * width + 1 = c.n_inputs
        err == IF empty THEN "ValueError"
               ELSE IF ~masked THEN "IndexError"
               ELSE IF c.n_outputs # 1 \/ ~same \/ ~fits THEN "AssertionError"
               ELSE ""
    IN  [err |-> err,
         inputs |-> IF err # "" THEN << >>
                    ELSE [r \in 1..Len(X_flat) |->
                            LET xs == Select(<<X_flat[r]>>, mask).v
                                rs == Select(<<R_flat[r]>>, mask).v
                            IN  IF c.use_error
                                THEN [q \in 1..Len(xs) |-> rs[q] - xs[q]]
                                         \o <<T2go_flat[r]>>
                                ELSE xs \o rs \o <<T2go_flat[r]>>],
         outputs |-> IF err # "" THEN << >>
                     ELSE [r \in 1..Len(U_flat) |-> <<U_flat[r]>>]]

NoArrange == [valid |-> FALSE, err |-> "", inputs |-> << >>, outputs |-> << >>]
NoGrid == [valid |-> FALSE]

\* Nothing loaded, concatenated, arranged or gridded yet, no file
NoPipe ==
    /\ sims_file = NoDataset
    /\ loaded = NoDataset
    /\ batch = NoDataset
    /\ arr = NoArrange
    /\ grid = NoGrid

\* What the pipeline's steps leave alone
besidePipe == <<closed_loop, x0, xf, now, X, U, param, ret, ctlVars, ghostVars,
                multiVars, wlog, noise_u, noise_dyn, nnVars, clog>>

\* X_series_l, ... = load_sim_data(sims_path), tutorial line 128
LoadSimData ==
    /\ pc = "data"
    /\ ~loaded.valid
    /\ ~batch.valid
    /\ \E r \in {load_sim_data(sims_file)} :
         /\ loaded' = IF r.raised THEN loaded ELSE r.d
         /\ pc' = IF r.raised THEN "raised" ELSE pc
         /\ exc' = IF r.raised THEN "FileNotFoundError" ELSE exc
    /\ UNCHANGED <<sims_file, batch, arr, grid, besidePipe>>

\* Trajectories were generated in this run (generate_mpc_data)
Generated == cnt > 0

\* The four arrays a run starts from, tutorial lines 117-124, and the ones
\* simulate_multi returned
Allocated ==
    LET cols == FloorDiv(Tf, dt) + 1
    IN  Dataset4(EmptyArr(cols), EmptyArr(cols), EmptyArr(cols), EmptyArr(cols))

Simulated ==
    IF Generated
    THEN Dataset4(Arr(N_sim + 1, X_series), Arr(N_sim + 1, U_series),
                  Arr(N_sim + 1, R_series), Arr(N_sim + 1, T_series))
    ELSE Allocated

\* X_series = np.concatenate((X_series_l, X_series_s), axis=0) and the three
\* others, tutorial lines 142-145
Concatenate ==
    /\ pc = "data"
    /\ ~batch.valid
    /\ LET l == IF loaded.valid THEN loaded ELSE Allocated
           g == Simulated
           cX == concatenate(l.X, g.X)
           cU == concatenate(l.U, g.U)
           cR == concatenate(l.R, g.R)
           cT == concatenate(l.T, g.T)
           raised == cX.raised \/ cU.raised \/ cR.raised \/ cT.raised
       IN  /\ batch' = IF raised THEN batch ELSE Dataset4(cX.a, cU.a, cR.a, cT.a)
           /\ pc' = IF raised THEN "raised" ELSE pc
           /\ exc' = IF raised THEN "ValueError" ELSE exc
    /\ UNCHANGED <<sims_file, loaded, arr, grid, besidePipe>>

\* save_sims(sims_path, X_series, ...), tutorial lines 148-149
SaveSims ==
    /\ pc = "data"
    /\ batch.valid
    /\ Generated
    /\ \E r \in {save_sims(sims_file, batch)} :
         /\ sims_file' = r.file
         /\ pc' = IF r.raised THEN "raised" ELSE pc
         /\ exc' = IF r.raised THEN "AssertionError" ELSE exc
    /\ UNCHANGED <<loaded, batch, arr, grid, besidePipe>>

\* inputs, outputs = nnmpc.arrange_sim_data(X_series, ...), tutorial line 188
Arrange ==
    /\ pc = "data"
    /\ batch.valid
    /\ ~arr.valid
    /\ nn[1].made
    /\ \E r \in {arrange_sim_data(nn[1], batch)} :
         /\ arr' = [valid |-> TRUE, err |-> r.err, inputs |-> r.inputs,
                    outputs |-> r.outputs]
         /\ pc' = IF r.err # "" THEN "raised" ELSE pc
         /\ exc' = IF r.err # "" THEN r.err ELSE exc
    /\ UNCHANGED <<sims_file, loaded, batch, grid, besidePipe>>


(* ------------------------- the specifications ------------------------- *)
TypeOK ==
    /\ Tf \in dt..MaxTf
    /\ ctrl \in Controllers \cup {"NNMPC"}
    /\ OCP_mode \in BOOLEAN
    /\ MPC_failed \in BOOLEAN
    /\ pc \in {"idle", "sim", "multi", "done", "removed", "raised", "direct", "nn", "data"}
    /\ now \in 0..N_sim
    /\ budget \in 0..MaxFail

\* Nothing simulated yet, whatever the controller
InitRest ==
    /\ Tf \in dt..MaxTf
    /\ MPC_failed = FALSE
    /\ x0 = 0
    /\ xf = 0
    /\ now = 0
    /\ X = << >>
    /\ U = << >>
    /\ param = NewParam(Tf)
    /\ ret = NoRet
    /\ exc = ""
    /\ budget = MaxFail
    /\ nsims = 0
    /\ termCalls = 0
    /\ notices = 0
    /\ fails = 0
    /\ flagAtStart = FALSE
    /\ last = NoCall
    /\ ncalls = 0
    /\ wlog = NoNoise
    /\ clog = << >>

InitCommon ==
    /\ ctrl \in Controllers
    /\ OCP_mode \in (IF ctrl = "MPC" THEN BOOLEAN ELSE {FALSE})
    /\ InitRest

NoBatch ==
    /\ nx0 = 0
    /\ nxf = 0
    /\ n_times = 0
    /\ i = 0
    /\ j = 0
    /\ k = 0
    /\ cnt = 0
    /\ X_series = << >>
    /\ U_series = << >>
    /\ R_series = << >>
    /\ T_series = << >>
    /\ order = << >>

\* One Simulator and one controller, driven by a caller's simulate calls
Init ==
    /\ InitCommon
    /\ NoBatch
    /\ NoNN
    /\ NoPipe
    /\ data = << >>
    /\ pc = "idle"
    /\ closed_loop = TRUE
    /\ noise_u \in NoiseLevels
    /\ noise_dyn \in NoiseLevels

Next ==
    \/ CallSimulateClosed
    \/ CallSimulateOpen
    \/ SimStep
    \/ SimReturn

Spec == Init /\ [][Next]_vars

\* One simulate_multi call, from its allocation of the four arrays
InitMulti ==
    /\ InitCommon
    /\ NoNN
    /\ NoPipe
    /\ data = << >>
    /\ pc = "multi"
    /\ closed_loop \in BOOLEAN
    /\ nx0 \in 1..MaxGrid
    /\ nxf \in 1..MaxGrid
    /\ n_times \in 1..MaxRep
    /\ nx0 * nxf * n_times <= MaxTraj
    /\ i = 0
    /\ j = 0
    /\ k = 0
    /\ cnt = 0
    /\ X_series = EmptySeries(nx0 * nxf * n_times)
    /\ U_series = EmptySeries(nx0 * nxf * n_times)
    /\ R_series = EmptySeries(nx0 * nxf * n_times)
    /\ T_series = EmptySeries(nx0 * nxf * n_times)
    /\ order = << >>
    /\ noise_u = 0
    /\ noise_dyn = 0

NextMulti ==
    \/ MultiCallClosed
    \/ MultiCallOpen
    \/ SimStep
    \/ MultiStore
    \/ Prune
    \/ RemoveSims

SpecMulti == InitMulti /\ [][NextMulti]_vars


(* ---------------- direct controller calls on one params bag ------------ *)
\* The time2go values a caller passes: whole multiples of dt up to MaxTf
Horizons == {m * dt : m \in 1..(MaxTf \div dt)}

\* controller.control_action(x, xf, param) by a caller that keeps the bag
DirectControlAction ==
    /\ UNCHANGED <<wlog, otherVars>>
    /\ pc = "direct"
    /\ ncalls < MaxCalls
    /\ \E t2g \in Horizons :
         LET p1 == [param EXCEPT !.t2g_num = t2g, !.t2g_den = 1]
             x == x0_set(1)
         IN  \E kind \in (IF WillSolve(p1) THEN KindsFor(x) ELSE {"ok"}) :
               LET r == ControlAction(x, xf_set(1), p1, kind)
               IN  /\ param' = r.param
                   /\ MPC_failed' = r.MPC_failed
                   /\ notices' = notices + (IF r.notice THEN 1 ELSE 0)
                   /\ fails' = fails + (IF r.failed THEN 1 ELSE 0)
                   /\ budget' = IF r.solved THEN Spend(x, kind) ELSE budget
                   /\ last' = CallRecord("action", kind, x, p1, r)
                   /\ pc' = IF r.raised THEN "raised" ELSE "direct"
                   /\ exc' = IF r.raised THEN "IndexError" ELSE ""
    /\ ncalls' = ncalls + 1
    /\ UNCHANGED <<closed_loop, x0, xf, now, X, U, ret, Tf, ctrl, OCP_mode, nsims,
                   termCalls, flagAtStart, multiVars>>

\* controller.control_plan(x, xf, param) by a caller that keeps the bag
DirectControlPlan ==
    /\ UNCHANGED <<wlog, otherVars>>
    /\ pc = "direct"
    /\ ncalls < MaxCalls
    /\ ctrl = "MPC"
    /\ \E t2g \in Horizons :
         LET p1 == [param EXCEPT !.t2g_num = t2g, !.t2g_den = 1]
             x == x0_set(1)
         IN  \E kind \in KindsFor(x) :
               LET r == MPC_control_plan(x, xf_set(1), p1, MPC_failed, kind)
               IN  /\ param' = r.param
                   /\ MPC_failed' = r.MPC_failed
                   /\ notices' = notices + (IF r.notice THEN 1 ELSE 0)
                   /\ fails' = fails + (IF r.failed THEN 1 ELSE 0)
                   /\ budget' = Spend(x, kind)
                   /\ last' = [op |-> "plan", kind |-> kind, x0 |-> x, pre |-> p1,
                               post |-> r.param, solved |-> TRUE, failed |-> r.failed,
                               raised |-> FALSE, plan_raised |-> r.raised, u |-> 0,
                               plan |-> [U |-> r.U, X |-> r.X]]
    /\ ncalls' = ncalls + 1
    /\ UNCHANGED <<pc, exc, closed_loop, x0, xf, now, X, U, ret, Tf, ctrl, OCP_mode,
                   nsims, termCalls, flagAtStart, multiVars>>

InitCtl ==
    /\ InitCommon
    /\ NoBatch
    /\ NoNN
    /\ NoPipe
    /\ data = << >>
    /\ pc = "direct"
    /\ closed_loop = TRUE
    /\ noise_u = 0
    /\ noise_dyn = 0

NextCtl ==
    \/ DirectControlAction
    \/ DirectControlPlan

SpecCtl == InitCtl /\ [][NextCtl]_vars

(* ------------------- one process using NNMPCs ------------------------- *)
\* The rest of the module's state, at rest
Elsewhere ==
    /\ NoBatch
    /\ NoPipe
    /\ Tf = dt
    /\ ctrl = "Null"
    /\ closed_loop = TRUE
    /\ noise_u = 0
    /\ noise_dyn = 0

NNActions ==
    \E cid \in 1..MaxInst :
        \/ Construct(cid)
        \/ DefineStructure(cid)
        \/ CleanDataset(cid)
        \/ TrainNN(cid, {1})
        \/ SaveNNMPC(cid)
        \/ LoadNNMPC(cid)

\* One process that builds, cleans for, trains, saves and loads NNMPCs
InitNN ==
    /\ InitCommon
    /\ Elsewhere
    /\ NoNN
    /\ pc = "nn"
    /\ data = <<<<0, 0>>, <<MaxVal, MaxVal>>>>

NextNN ==
    \/ (NNActions /\ UNCHANGED <<simVars, ctlVars, ghostVars, multiVars, wlog,
                                 noise_u, noise_dyn, pipeVars, clog>>)
    \/ (OlderArtifact /\ UNCHANGED <<simVars, ctlVars, ghostVars, multiVars, wlog,
                                     noise_u, noise_dyn, pipeVars, clog>>)

SpecNN == InitNN /\ [][NextNN]_vars

\* One controller, built for a model, given its network and its scalers,
\* and then trained by successive train_nn calls
Prepared(nx_, use_error) ==
    clean_dataset(define_nn_structure(NNMPC_init(nx_, 1, NoMask, use_error), 1),
                  Io(<<<<0, 0>>, <<MaxVal, MaxVal>>>>,
                     (IF use_error THEN nx_ + 1 ELSE 2 * nx_ + 1) + 1)).c

InitTrain ==
    /\ InitCommon
    /\ Elsewhere
    /\ pc = "nn"
    /\ data = <<<<0, 0>>, <<MaxVal, MaxVal>>>>
    /\ \E nx_ \in 1..MaxNx, use_error \in BOOLEAN :
         nn = [q \in 1..MaxInst |->
                 IF q = 1 THEN Prepared(nx_, use_error) ELSE ClassAttrs]
    /\ nparams = 1
    /\ lists = << << >> >>
    /\ disk = NoFile
    /\ tr = NoTrain
    /\ ld = NoLoad
    /\ cl = NoClean

NextTrain ==
    \E cid \in 1..MaxInst :
        /\ TrainNN(cid, 1..MaxEpochs)
        /\ UNCHANGED <<simVars, ctlVars, ghostVars, multiVars, wlog, noise_u,
                       noise_dyn, pipeVars, clog>>

SpecTrain == InitTrain /\ [][NextTrain]_vars

(* --- one controller cleaning the dataset its caller holds, again and
       again: every clean_dataset call after the first is given the rows
       the call before returned --- *)

\* The controller with its structure defined and no scalers yet
Unscaled(nx_, use_error) ==
    define_nn_structure(NNMPC_init(nx_, 1, NoMask, use_error), 1)

InitClean ==
    /\ InitCommon
    /\ Elsewhere
    /\ pc = "nn"
    /\ data \in Datasets
    /\ \E nx_ \in 1..MaxNx, use_error \in BOOLEAN, scaled \in BOOLEAN :
         nn = [q \in 1..MaxInst |->
                 IF q # 1 THEN ClassAttrs
                 ELSE IF scaled THEN Prepared(nx_, use_error)
                 ELSE Unscaled(nx_, use_error)]
    /\ nparams = 1
    /\ lists = << << >> >>
    /\ disk = NoFile
    /\ tr = NoTrain
    /\ ld = NoLoad
    /\ cl = NoClean

NextClean ==
    \E cid \in 1..MaxInst :
        /\ CleanDataset(cid)
        /\ UNCHANGED <<simVars, ctlVars, ghostVars, multiVars, wlog, noise_u,
                       noise_dyn, pipeVars, clog>>

SpecClean == InitClean /\ [][NextClean]_vars


(* ---------------- one run of the tutorial's data pipeline -------------- *)
\* The closed-loop trajectory from x0_set(1) to xf_set(1) when every solve
\* succeeds
SimX == [q \in 1..(N_sim + 1) |-> IF q = 1 THEN x0_set(1) ELSE xf_set(1)]
SimU == RepeatLast([q \in 1..(N_sim + 1) |->
                      IF q = 1 THEN xf_set(1) - x0_set(1) ELSE 0])

\* A file of any content at sims_path; no trajectory generated, or the one
\* above as simulate_multi returned it; a controller built for the model
InitData ==
    /\ InitCommon
    /\ ctrl = "MPC"
    /\ ~OCP_mode
    /\ pc = "data"
    /\ closed_loop = TRUE
    /\ noise_u = 0
    /\ noise_dyn = 0
    /\ data = << >>
    /\ \/ NoBatch
       \/ /\ nx0 = 1 /\ nxf = 1 /\ n_times = 1
          /\ i = 1 /\ j = 0 /\ k = 0
          /\ cnt = 1
          /\ order = << <<0, 0, 0>> >>
          /\ X_series = << Row(1, SimX) >>
          /\ U_series = << Row(1, SimU) >>
          /\ R_series = << Row(1, Full(N_sim + 1, xf_set(1))) >>
          /\ T_series = << Row(1, linspace) >>
    /\ lists = << << >> >>
    /\ \E use_error \in BOOLEAN :
         nn = [q \in 1..MaxInst |->
                 IF q = 1 THEN Unscaled(1, use_error) ELSE ClassAttrs]
    /\ disk = NoFile
    /\ nparams = 1
    /\ tr = NoTrain
    /\ ld = NoLoad
    /\ cl = NoClean
    /\ sims_file \in Files
    /\ loaded = NoDataset
    /\ batch = NoDataset
    /\ arr = NoArrange
    /\ grid = NoGrid

NextData ==
    \/ LoadSimData
    \/ Concatenate
    \/ SaveSims
    \/ Arrange

SpecData == InitData /\ [][NextData]_vars

(* ------- a Simulator with a controller that has no planning model ------ *)
\* The controller as clean_dataset leaves it when define_nn_structure was
\* never called: scalers, no approximator
ScaledOnly(nx_, use_error) ==
    clean_dataset(NNMPC_init(nx_, 1, NoMask, use_error),
                  Io(<<<<0, 0>>, <<MaxVal, MaxVal>>>>,
                     (IF use_error THEN nx_ + 1 ELSE 2 * nx_ + 1) + 1)).c

InitPlan ==
    /\ InitRest
    /\ Tf % dt = 0
    /\ ctrl \in {"Null", "NNMPC"}
    /\ OCP_mode = FALSE
    /\ NoBatch
    /\ NoPipe
    /\ pc = "idle"
    /\ closed_loop = TRUE
    /\ noise_u = 0
    /\ noise_dyn = 0
    /\ data = << >>
    /\ lists = << << >> >>
    /\ \E use_error \in BOOLEAN, built \in BOOLEAN :
         nn = [q \in 1..MaxInst |->
                 IF q # 1 \/ ctrl # "NNMPC" THEN ClassAttrs
                 ELSE IF built THEN Prepared(1, use_error)
                 ELSE ScaledOnly(1, use_error)]
    /\ disk = NoFile
    /\ nparams = 1
    /\ tr = NoTrain
    /\ ld = NoLoad
    /\ cl = NoClean

NextPlan ==
    \/ CallSimulateClosed
    \/ CallSimulateOpen
    \/ (SimStep /\ ctrl = "Null")
    \/ SimStepNN
    \/ SimReturn
    \/ DirectPlanNone

SpecPlan == InitPlan /\ [][NextPlan]_vars

(* ---------------------- the grid of boundary states -------------------- *)
MaxPoints == 3     \* n_points is 1..MaxPoints
MaxDim == 3        \* x_range has 1..MaxDim entries, model.nx is up to MaxDim

\* A float as the fraction num/den, den > 0
Frac(num, den) == <<num, den>>

SameFrac(a, b) == a[1] * b[2] = b[1] * a[2]

\* b ** e
Power(b, e) == IF e = 0 THEN 1 ELSE IF e = 1 THEN b ELSE IF e = 2 THEN b * b
               ELSE IF e = 3 THEN b * b * b ELSE b * b * b * b

\* np.linspace(lo, hi, n): lo alone when n is 1
np_linspace(lo, hi, n) ==
    [q \in 1..n |-> IF n = 1 THEN Frac(lo, 1)
                    ELSE Frac(lo * (n - 1) + (hi - lo) * (q - 1), n - 1)]

\* lines 136-139: the entries of more than one value, in order
Ranged(x_range) == SelectSeq(x_range, LAMBDA entry : Len(entry) > 1)

\* lines 136-140: one row of n_points values per entry of more than one value
x_values_of(n_points, x_range) ==
    [c \in 1..Len(Ranged(x_range)) |->
       np_linspace(Ranged(x_range)[c][1], Ranged(x_range)[c][2], n_points)]

\* line 141, list(itertools.product(*x_values)): every combination, the last
\* row of x_values varying fastest; one empty combination for no row at all
product(x_values, n_points) ==
    LET cols == Len(x_values)
    IN  [r \in 1..Power(n_points, cols) |->
           [c \in 1..cols |->
              x_values[c][(((r - 1) \div Power(n_points, cols - c)) % n_points) + 1]]]

\* lines 143-144: columns of zeros up to nx columns
PadZeros(rows, nx_) ==
    [r \in 1..Len(rows) |->
       IF Len(rows[r]) < nx_
       THEN rows[r] \o Full(nx_ - Len(rows[r]), Frac(0, 1))
       ELSE rows[r]]

\* lines 146-148: column i is overwritten with the value of entry i when the
\* entry has one value
SetSingles(rows, x_range) ==
    [r \in 1..Len(rows) |->
       [c \in 1..Len(rows[r]) |->
          IF c <= Len(x_range) /\ Len(x_range[c]) = 1
          THEN Frac(x_range[c][1], 1)
          ELSE rows[r][c]]]

\* get_states_grid(model, n_points, x_range) for a model of nx_ states.
\* raised: line 148 indexed a column the array does not have
get_states_grid(nx_, n_points, x_range) ==
    LET padded == PadZeros(product(x_values_of(n_points, x_range), n_points), nx_)
        width == Len(padded[1])
        out_of_bounds == \E c \in 1..Len(x_range) :
                           Len(x_range[c]) = 1 /\ c > width
    IN  [valid |-> TRUE, raised |-> out_of_bounds, nx |-> nx_,
         n_points |-> n_points, x_range |-> x_range,
         rows |-> IF out_of_bounds THEN << >> ELSE SetSingles(padded, x_range)]

\* The entries a caller writes: [v] and [lo, hi] with lo < hi
GridEntries == {<<0>>, <<1>>, <<0, 2>>, <<1, 5>>}

XRanges == UNION {[1..len -> GridEntries] : len \in 1..MaxDim}

\* nnmpc_tutorial.py, line 133 (line 134 alike): the get_states_grid call of
\* a run that has not built a grid yet
GetStatesGrid ==
    /\ pc = "data"
    /\ ~grid.valid
    /\ \E n_points \in 1..MaxPoints, x_range \in XRanges :
         \E nx_ \in Len(x_range)..MaxDim :
           grid' = get_states_grid(nx_, n_points, x_range)
    /\ UNCHANGED <<sims_file, loaded, batch, arr, besidePipe, pc, exc>>

InitGrid ==
    /\ InitCommon
    /\ Elsewhere
    /\ NoNN
    /\ pc = "data"
    /\ data = << >>

NextGrid == GetStatesGrid

SpecGrid == InitGrid /\ [][NextGrid]_vars

(* ------------------------------ claims --------------------------------- *)
\* The last controller call reached control_plan and its solve failed
PlanFailed == last.op # "none" /\ last.solved /\ last.failed

\* C1: a failure confined to one trajectory (the solver raises, returns nan,
\* or returns an initial state inconsistent with x0) never leaves
\* simulate_multi as an exception.  Stated for the MPC controller with Tf a
\* whole multiple of dt, where nothing but such a failure can go wrong.
C1_FailureNeverAbortsBatch ==
    (InMulti /\ ctrl = "MPC" /\ Tf % dt = 0) => pc # "raised"

\* C2: when control has left a simulate call, by return or by exception, that
\* call has called sim_termination exactly once.
C2_TerminationOncePerSimulate ==
    (nsims > 0 /\ pc \in {"idle", "raised"}) => termCalls = 1

\* C3: when a control_plan call fails and the bag carried a saved guess, the
\* returned (U, X) is that guess as stored before the call, and the bag
\* afterwards holds it with the first sample removed.
C3_FallbackIsSavedGuess ==
    (PlanFailed /\ last.pre.has_guess) =>
        /\ last.plan.U = last.pre.init_guess_U
        /\ last.plan.X = last.pre.init_guess_X
        /\ last.post.init_guess_U = Rest(last.pre.init_guess_U)
        /\ last.post.init_guess_X = Rest(last.pre.init_guess_X)

\* C4: when the solver's sampled initial state disagrees with x0 beyond the
\* tolerance, control_plan raises to its caller and returns no plan.
C4_MismatchIsHardFault ==
    (last.op # "none" /\ last.solved /\ last.kind = "mismatch"
        /\ ~allclose(last.x0 + atol + 1, last.x0)) =>
        /\ last.plan_raised
        /\ ~last.failed

\* C5: in every trajectory run through simulate with the MPC controller the
\* failure flag is clear at the start, and the notice has been printed once
\* if a solve has failed in it and not at all otherwise.
C5_NoticeOncePerTrajectory ==
    (nsims > 0 /\ ctrl = "MPC") =>
        /\ ~flagAtStart
        /\ notices = (IF fails > 0 THEN 1 ELSE 0)

\* C6: with OCP_mode, a control_action call on a bag whose cached plan has
\* unconsumed steps returns the next cached step, consumes it and does not
\* solve; a call on a bag with no cached plan, or with none of it left,
\* solves a fresh plan and returns its first action.  Stated for the calls
\* made while every solve so far has succeeded.
C6_CachedStepOrFreshSolve ==
    (last.op = "action" /\ ctrl = "MPC" /\ OCP_mode /\ budget = MaxFail) =>
        IF last.pre.has_guess /\ Len(last.pre.init_guess_U) > 0
        THEN /\ ~last.solved
             /\ ~last.raised
             /\ last.u = last.pre.init_guess_U[1]
             /\ last.post.init_guess_U = Rest(last.pre.init_guess_U)
        ELSE /\ last.solved
             /\ ~last.raised
             /\ last.u = last.plan.U[1]

\* The four arrays have the same rows in the same order
Aligned ==
    /\ Len(U_series) = Len(X_series)
    /\ Len(R_series) = Len(X_series)
    /\ Len(T_series) = Len(X_series)
    /\ \A q \in 1..Len(X_series) :
         /\ U_series[q].traj = X_series[q].traj
         /\ R_series[q].traj = X_series[q].traj
         /\ T_series[q].traj = X_series[q].traj
    /\ \A q \in 1..(Len(X_series) - 1) : X_series[q].traj < X_series[q + 1].traj

\* C7: after the nan removal of simulate_multi and after remove_sims, the
\* four arrays have the same leading dimension, row q of each comes from the
\* same simulate call, and the surviving rows are in their original order.
C7_PruningKeepsRowsAligned ==
    pc \in {"done", "removed"} => Aligned

\* C7 witness: remove_sims has deleted the first trajectory of a batch from
\* which the nan removal had already deleted one, and rows survive.
C7_Witness ==
    /\ pc = "removed"
    /\ Len(X_series) >= 1
    /\ Len(X_series) + 2 <= cnt
    /\ X_series[1].traj > 1

\* C8: no trajectory returned by simulate_multi has a nan in its states or in
\* its controls.
C8_NoNaNReturned ==
    pc = "done" =>
        \A q \in 1..Len(X_series) :
            ~AnyNaN(X_series[q].v) /\ ~AnyNaN(U_series[q].v)

\* C9: simulate_multi makes |x0_set|*|xf_set|*repeats simulate calls; before
\* pruning the call for x0 index a, xf index b and repeat c is stored at
\* batch index (a*|xf_set| + b)*repeats + c, started from x0_set[a], and its
\* target row is xf_set[b] at every sample.
C9_BatchOrderAndCount ==
    (InMulti /\ pc \in {"multi", "sim"}) =>
        /\ Len(order) = cnt
        /\ (LoopDone <=> cnt = N_trajectories)
        /\ \A q \in 1..cnt :
             LET a == order[q][1]
                 b == order[q][2]
                 c == order[q][3]
             IN  /\ a < nx0 /\ b < nxf /\ c < n_times
                 /\ q - 1 = (a * nxf + b) * n_times + c
                 /\ X_series[q].traj = q
                 /\ R_series[q].v = Full(N_sim + 1, xf_set(b + 1))
                 /\ T_series[q].v = linspace
                 /\ (closed_loop => X_series[q].v[1] = x0_set(a + 1))

\* C9 witness: the loops of a 2 x 2 grid have run out, before pruning.
C9_Witness ==
    /\ pc = "multi"
    /\ LoopDone
    /\ nx0 = 2
    /\ nxf = 2
    /\ cnt = 4 * n_times

\* C10: every trajectory simulate returns has floor(Tf/dt)+1 states and as
\* many controls, and a plan control_plan makes for time2go = Tf has that
\* length too.
C10_LengthIsFloorPlusOne ==
    /\ ret.valid =>
         /\ Len(ret.X) = FloorDiv(Tf, dt) + 1
         /\ Len(ret.U) = FloorDiv(Tf, dt) + 1
    /\ (last.op = "plan" /\ last.solved /\ ~last.failed
            /\ last.pre.t2g_num = Tf * last.pre.t2g_den) =>
         /\ Len(last.plan.X) = FloorDiv(Tf, dt) + 1
         /\ Len(last.plan.U) = FloorDiv(Tf, dt) + 1

\* C11: after every pass of the closed loop, the pass added process noise of
\* the configured level noise_dyn to the next state exactly when its
\* time2go was at least 0.5 time units, and added exactly zero below it.
C11_NoiseUnlessBelowThreshold ==
    wlog.valid =>
        LET atLeast == wlog.t2g_num * thr_den >= thr_num * ticks_per_unit * wlog.t2g_den
        IN  /\ atLeast => wlog.branch /\ wlog.sigma = noise_dyn
            /\ ~atLeast => wlog.w = 0 /\ wlog.after = wlog.before

\* C12: every plan control_plan returns starts at the state it was asked to
\* start from: its first state row is x0 within the tolerance of allclose,
\* whatever the solver did in that call.  (Stated for the calls whose sampled
\* solution, if any, started at x0: the other ones are C4's.)
C12_PlanStartsAtX0 ==
    (last.op = "plan" /\ ~last.plan_raised /\ last.kind # "mismatch") =>
        /\ Len(last.plan.X) > 0
        /\ allclose(last.plan.X[1], last.x0)

\* The states and horizons control_action is asked about
States(nx_) == [1..nx_ -> {0, 1}]

\* C13: a controller loaded from the bundle save_nnmpc wrote has the saved
\* controller's approximator, scalers, use_error, selected_inputs, loss
\* history, n_inputs and n_outputs, and its control_action returns what the
\* saved controller's returned, whatever state the saved controller was in.
C13_SaveLoadRoundTrip ==
    (ld.valid /\ ld.bundle /\ ld.keys = OptionalKeys) =>
        LET a == disk.by
            b == nn[ld.c]
        IN  /\ ~ld.raised
            /\ b.nn_model = a.nn_model
            /\ b.scalerIn = a.scalerIn
            /\ b.scalerOut = a.scalerOut
            /\ b.use_error = a.use_error
            /\ b.selected_inputs = a.selected_inputs
            /\ ld.history = disk.by_history
            /\ b.n_inputs = a.n_inputs
            /\ b.n_outputs = a.n_outputs
            /\ \A x0_ \in States(a.nx), xf_ \in States(a.nx), t \in {0, dt} :
                   NN_control_action(b, x0_, xf_, t) = NN_control_action(a, x0_, xf_, t)

\* C13 (amended): the same, for a saved controller whose approximator exists
\* (define_nn_structure was called on it, or it was itself loaded).
C13_RoundTripOfBuiltController ==
    (ld.valid /\ ld.bundle /\ ld.keys = OptionalKeys /\ disk.by.nn_model.some) =>
        C13_SaveLoadRoundTrip

\* A trained controller with scalers was saved and loaded, and the loaded
\* one computes a control
C13_Witness ==
    /\ ld.valid /\ ~ld.raised /\ ld.bundle /\ ld.keys = OptionalKeys
    /\ disk.by.nn_model.some
    /\ Len(disk.by_history) > 0
    /\ disk.by.nn_model.theta > 1
    /\ NN_control_action(nn[ld.c], <<0>>, <<1>>, dt).err = ""

\* C14: load_nnmpc succeeds on a bundle, or a bare model, that lacks optional
\* keys, and the controller it returns has, for each absent key, the fixed
\* default: an empty loss history, no scaler, use_error false, an all-true
\* mask, whatever other controllers did before in the process.
C14_FixedDefaultsOnLoad ==
    (ld.valid /\ disk.by.nn_model.some /\ ld.keys # OptionalKeys) =>
        LET b == nn[ld.c]
        IN  /\ ~ld.raised
            /\ "loss_history" \notin ld.keys => ld.history = << >>
            /\ "scalerIn" \notin ld.keys => b.scalerIn = NoScaler
            /\ "scalerOut" \notin ld.keys => b.scalerOut = NoScaler
            /\ "use_error" \notin ld.keys => ~b.use_error
            /\ "selected_inputs" \notin ld.keys =>
                   /\ b.selected_inputs.some
                   /\ Count(b.selected_inputs.v) = Len(b.selected_inputs.v)

\* C15: every controller built from a model or loaded has n_inputs equal to
\* count(selected_inputs) + 1 with use_error and to 2 * count + 1 without,
\* and the feature vector control_action builds for a state of the model
\* has width n_inputs.
C15_WidthMatchesMask ==
    \A cid \in 1..MaxInst :
        nn[cid].made =>
            LET c == nn[cid]
                count == Count(c.selected_inputs.v)
            IN  /\ c.n_inputs = IF c.use_error THEN count + 1 ELSE 2 * count + 1
                /\ \A x0_ \in States(c.nx), xf_ \in States(c.nx) :
                       NN_control_action(c, x0_, xf_, dt).width = c.n_inputs

\* Controller cid was built by NNMPC(...), not loaded, and never trained
Untrained(cid) ==
    /\ nn[cid].made
    /\ ~(ld.valid /\ ~ld.raised /\ ld.c = cid)
    /\ tr.ended[cid] = None

\* C16: every controller has a loss history of its own: a train_nn call on
\* one controller leaves the history of every other controller as it was,
\* and a controller that was built and never trained has an empty history.
C16_OwnLossHistory ==
    /\ tr.valid => tr.others
    /\ \A cid \in 1..MaxInst : Untrained(cid) => History(nn[cid]) = << >>

\* C17: of two consecutive train_nn calls on one controller, the second
\* never ends with a best MSE greater than the one the first ended with,
\* and with a history free of NaN it ends with one at most as large.
C17_BestNeverRegresses ==
    (tr.valid /\ tr.prev_best # None) =>
        /\ ~Gt(tr.best_mse, tr.prev_best)
        /\ ~AnyNaN(tr.before \o tr.losses) => tr.best_mse <= tr.prev_best

\* A second call whose epochs were all worse than the first call's best, and
\* one that improved on it
C17_Witness ==
    /\ tr.valid /\ tr.prev_best # None /\ ~AnyNaN(tr.before \o tr.losses)
    /\ \A e \in 1..Len(tr.losses) : tr.losses[e] > tr.prev_best
    /\ tr.best_mse = tr.prev_best

\* C18: when train_nn returns, the model has the parameters at which the
\* lowest loss of the call was computed, if that loss improved on the best
\* known before, and otherwise the parameters it had when the call began.
C18_RestoresBestEvaluated ==
    tr.valid =>
        tr.theta = IF tr.improved > 0 THEN tr.at[tr.improved] ELSE tr.theta0

\* C19 (as stated): every train_nn call starts best_mse at the maximum of
\* the loss history, or at infinity when the history is empty.
C19_BestStartsAtMax ==
    tr.valid =>
        tr.best0 = IF Len(tr.before) > 0 THEN np_max(tr.before) ELSE Inf

\* C19 (amended): every train_nn call starts best_mse at the minimum of the
\* loss history, or at infinity when the history is empty.
C19_BestStartsAtMin ==
    tr.valid =>
        /\ Len(tr.before) = 0 => tr.best0 = Inf
        /\ Len(tr.before) > 0 =>
               IF AnyNaN(tr.before) THEN IsNaN(tr.best0)
               ELSE /\ \E q \in 1..Len(tr.before) : tr.best0 = tr.before[q]
                    /\ \A q \in 1..Len(tr.before) : tr.best0 <= tr.before[q]

\* A call that found a history of two different finite losses
C19_Witness ==
    /\ tr.valid /\ Len(tr.before) > 1 /\ ~AnyNaN(tr.before)
    /\ tr.before[1] # tr.before[2]
    /\ tr.best0 < np_max(tr.before)


\* C20: a clean_dataset call given the rows a previous clean_dataset call
\* returned, on a controller whose scalers exist, returns all of them (as
\* many rows out as in, no NaN row and no outlier reported) and leaves both
\* scalers as they were
C20_CleanIsIdempotent ==
    (cl.valid /\ cl.again /\ cl.fitted /\ ~cl.raised) =>
        /\ cl.rows_out = cl.rows_in
        /\ cl.n_nans = 0
        /\ cl.n_outliers = 0
        /\ cl.kept

\* C21: what load_sim_data returns has the same leading dimension in its
\* four arrays: a file whose states, controls, targets and times differ in
\* it makes the call raise.
C21_LoadValidatesLeadingDims ==
    loaded.valid =>
        /\ Len(loaded.X.rows) = Len(loaded.U.rows)
        /\ Len(loaded.X.rows) = Len(loaded.R.rows)
        /\ Len(loaded.X.rows) = Len(loaded.T.rows)

\* C22: a control_plan call on a controller without a planning model
\* returns no plan and leaves the bag as it was; an open-loop simulate with
\* such a controller ends in an outcome of its own (the TypeError of
\* unpacking None), which no simulate call that failed at run time for
\* another reason ends in.
C22_UnsupportedPlanIsDistinct ==
    /\ (last.op = "plan" /\ ~Plans(ctrl)) =>
         /\ last.plan = NoPlan
         /\ last.post = last.pre
         /\ ~MPC_failed
    /\ (nsims > 0 /\ pc \in {"idle", "raised"} /\ ~closed_loop /\ ~Plans(ctrl)) =>
         /\ pc = "raised"
         /\ exc = "TypeError"
    /\ (pc = "raised" /\ exc = "TypeError") => (~closed_loop /\ ~Plans(ctrl))

\* C23: in a closed-loop simulate with zero noise, the control_action calls
\* made so far are the passes 0, 1, ... in order, call k was given the state
\* X[k] and time2go = Tf - t[k] (positive, and smaller than the call before),
\* X[0] is x0, U[k] is the action call k returned and X[k+1] is the model's
\* step from X[k] under U[k]; when simulate returns, every control_action
\* call having returned, there were exactly N of them.
C23_ClosedLoopCallsInOrder ==
    (closed_loop /\ nsims > 0 /\ noise_u = 0 /\ noise_dyn = 0
        /\ pc \in {"sim", "idle", "raised"}) =>
        /\ X[1] = x0
        /\ Len(clog) = (IF pc = "raised" THEN now + 1 ELSE now)
        /\ \A q \in 1..Len(clog) :
             /\ clog[q].k = q - 1
             /\ clog[q].x = X[q]
             /\ clog[q].t2g_num = Tf * (N_sim - (q - 1))
             /\ clog[q].t2g_den = N_sim
             /\ clog[q].t2g_num > 0
             /\ q > 1 => clog[q].t2g_num < clog[q - 1].t2g_num
        /\ \A q \in 1..now :
             /\ U[q] = clog[q].u
             /\ X[q + 1] = sim_step(X[q], U[q])
        /\ ret.valid =>
             /\ Len(clog) = N_sim
             /\ ret.X = X
             /\ \A q \in 1..N_sim : ret.U[q] = clog[q].u

\* C23 witness: a closed-loop simulate of three passes with zero noise has
\* returned, one of its solves having failed.
C23_Witness ==
    /\ closed_loop /\ noise_u = 0 /\ noise_dyn = 0
    /\ ret.valid
    /\ pc = "idle"
    /\ N_sim = 3
    /\ Len(clog) = 3
    /\ fails > 0

\* The last controller call was the first one of a trajectory run through
\* simulate: the first pass of a closed loop, or the plan of an open loop
FirstCallOfTrajectory ==
    /\ nsims > 0
    /\ \/ closed_loop /\ last.op = "action" /\ Len(clog) = 1
       \/ ~closed_loop /\ last.op = "plan" /\ last.solved

\* C24: the first control_action or control_plan call of every trajectory
\* finds a bag without saved guess, whatever the trajectories before it
\* left behind: with the MPC that call solves (no cached action is popped),
\* and if its solve raises, the plan is the default one and not a saved one.
C24_BagFreshPerTrajectory ==
    FirstCallOfTrajectory =>
        /\ ~last.pre.has_guess
        /\ last.pre.init_guess_X = << >>
        /\ last.pre.init_guess_U = << >>
        /\ ctrl = "MPC" => last.solved
        /\ (ctrl = "MPC" /\ last.kind = "raise") =>
              \A q \in 1..Len(last.plan.U) : last.plan.U[q] = default_u

\* C24 witness: after a first trajectory in which every solve succeeded and
\* left its guess in the bag, the first solve of the second trajectory
\* raised.
C24_Witness ==
    /\ FirstCallOfTrajectory
    /\ nsims = 2
    /\ ctrl = "MPC"
    /\ closed_loop
    /\ last.kind = "raise"
    /\ last.failed
    /\ budget = MaxFail - 1

\* The four arrays of the batch hold M trajectories of L samples each
Rectangular(d, M, L) ==
    /\ Len(d.X.rows) = M /\ Len(d.U.rows) = M
    /\ Len(d.R.rows) = M /\ Len(d.T.rows) = M
    /\ d.X.cols = L /\ d.U.cols = L /\ d.R.cols = L /\ d.T.cols = L

\* C25: for a batch of M >= 1 trajectories of L samples each, the call
\* arrange_sim_data returns M*(L-1) input rows and as many output rows; row
\* m*(L-1)+k holds, of sample k of trajectory m and of nothing else, the
\* state and the target (or the target minus the state with use_error), the
\* time-to-go max(T) - t and, as output, the control, for k in 0..L-2: no
\* final sample is in the dataset.
C25_ArrangeDropsFinalSample ==
    arr.valid =>
        LET M == Len(batch.X.rows)
            L == batch.X.cols
        IN  (M >= 1 /\ Rectangular(batch, M, L)) =>
              /\ arr.err = ""
              /\ Len(arr.inputs) = M * (L - 1)
              /\ Len(arr.outputs) = M * (L - 1)
              /\ \A m \in 0..(M - 1), s \in 0..(L - 2) :
                   LET r == m * (L - 1) + s + 1
                       x == batch.X.rows[m + 1].v[s + 1]
                       xt == batch.R.rows[m + 1].v[s + 1]
                       t2go == amax(batch.T) - batch.T.rows[m + 1].v[s + 1]
                   IN  /\ arr.inputs[r] = (IF nn[1].use_error
                                           THEN <<xt - x, t2go>>
                                           ELSE <<x, xt, t2go>>)
                       /\ arr.outputs[r] = <<batch.U.rows[m + 1].v[s + 1]>>

\* C25 witness: a batch of three trajectories of three samples, two loaded
\* and one simulated, has been arranged.
C25_Witness ==
    /\ arr.valid
    /\ arr.err = ""
    /\ Rectangular(batch, 3, 3)
    /\ loaded.valid
    /\ Len(arr.inputs) = 6

\* C29: in every batch arrange_sim_data accepts, the time-to-go feature of
\* the row of sample k of trajectory m is the time2go simulate passed to the
\* controller at that sample: that trajectory's own Tf, the last of its
\* times, minus t[k].
C29_TimeToGoIsThePassedOne ==
    (arr.valid /\ arr.err = "") =>
        LET M == Len(batch.T.rows)
            L == batch.T.cols
        IN  \A m \in 0..(M - 1), s \in 0..(L - 2) :
              LET row == arr.inputs[m * (L - 1) + s + 1]
                  t == batch.T.rows[m + 1].v
              IN  row[Len(row)] = t[L] - t[s + 1]

\* C26: every NNMPC of the process has both scalers or neither, and a
\* controller clean_dataset has returned from has both.
C26_ScalersTravelTogether ==
    /\ \A q \in 1..MaxInst : nn[q].scalerIn.some <=> nn[q].scalerOut.some
    /\ (cl.valid /\ ~cl.raised) =>
         /\ nn[cl.c].scalerIn.some
         /\ nn[cl.c].scalerOut.some

\* The finite losses a train_nn call had recorded before its epoch e: those of
\* the history it started from and those of its earlier epochs
FiniteBefore(e) ==
    {tr.before[q] : q \in {ep \in 1..Len(tr.before) : ~IsNaN(tr.before[ep])}}
      \cup {tr.losses[q] : q \in {ep \in 1..(e - 1) : ~IsNaN(tr.losses[ep])}}

\* C27: in every train_nn call, an epoch whose finite loss is lower than all
\* finite losses recorded before it updates the best snapshot, whatever NaN
\* the history holds; when no later epoch of the call is lower still, the call
\* ends with that epoch as its best.
C27_NaNNeverCorruptsBest ==
    tr.valid =>
      \A e \in 1..Len(tr.losses) :
        ( /\ ~IsNaN(tr.losses[e])
          /\ \A v \in FiniteBefore(e) : tr.losses[e] < v
          /\ \A ep \in (e + 1)..Len(tr.losses) : ~Lt(tr.losses[ep], tr.losses[e]) )
        => /\ tr.improved = e
           /\ tr.best_mse = tr.losses[e]


\* The last control_action call took its action from the plan saved in the
\* bag without solving (line 127)
PopRead == last.op = "action" /\ ~last.solved /\ OCP_mode /\ last.pre.has_guess

\* The last control_action call solved, failed and fell back on the plan
\* saved in the bag (lines 192-196)
FallbackRead ==
    last.op = "action" /\ last.solved /\ last.failed /\ last.post.has_guess

\* C28: in a closed-loop trajectory with Tf a multiple of dt, the saved plan
\* that the cached-plan pop or the failure fallback reads has at least one
\* sample, and no control_action call indexes an empty plan.
C28_SavedPlanNeverEmpty ==
    (ctrl = "MPC" /\ closed_loop /\ Tf % dt = 0 /\ last.op = "action") =>
      /\ PopRead => Len(last.pre.init_guess_U) > 0
      /\ FallbackRead => Len(last.plan.U) > 0
      /\ ~last.raised
      /\ exc # "IndexError"

C28_Witness ==
    /\ ctrl = "MPC"
    /\ closed_loop
    /\ Tf % dt = 0
    /\ FallbackRead
    /\ last.pre.has_guess
    /\ last.pre.current_index = N_sim - 1
    /\ Len(last.plan.U) = 1


\* The entries of one value and of two values are both present
Mixed(x_range) ==
    /\ \E c \in 1..Len(x_range) : Len(x_range[c]) = 1
    /\ \E c \in 1..Len(x_range) : Len(x_range[c]) > 1

\* v is a value of the entry: the fixed value, or one of the n_points evenly
\* spaced values
ValueOf(v, entry, n_points) ==
    IF Len(entry) = 1
    THEN SameFrac(v, Frac(entry[1], 1))
    ELSE \E q \in 1..n_points :
           SameFrac(v, np_linspace(entry[1], entry[2], n_points)[q])

\* C30: for an x_range mixing single-value and [lo, hi] entries in any order,
\* get_states_grid returns rows of nx columns, column i of every row holds a
\* value of x_range[i], the columns beyond x_range are zero, and the rows are
\* the n_points^(number of [lo, hi] entries) distinct combinations.
C30_GridHoldsEveryCombination ==
    (grid.valid /\ Mixed(grid.x_range)) =>
      /\ ~grid.raised
      /\ Len(grid.rows) = Power(grid.n_points, Len(Ranged(grid.x_range)))
      /\ \A r \in 1..Len(grid.rows) :
           /\ Len(grid.rows[r]) = grid.nx
           /\ \A c \in 1..Len(grid.x_range) :
                ValueOf(grid.rows[r][c], grid.x_range[c], grid.n_points)
           /\ \A c \in (Len(grid.x_range) + 1)..grid.nx :
                SameFrac(grid.rows[r][c], Frac(0, 1))
      /\ \A r1, r2 \in 1..Len(grid.rows) :
           r1 # r2 => \E c \in 1..grid.nx :
                        ~SameFrac(grid.rows[r1][c], grid.rows[r2][c])

====
